---- MODULE Spec2Model ----
(***************************************************************************)
(* Model of the offer-tracker backup script: the change report compiled by *)
(* compileBackupReport_ (src/src/backup.ts) and the column label codec     *)
(* convertToColumnLetters_ (gasHelpers, src/unnamed/part_003).             *)
(*                                                                         *)
(* Strings the code builds are modelled by what they are made of:          *)
(*   - a column label and a decimal number are sequences of character      *)
(*     codes ("A" = 65 ... "Z" = 90, "0" = 48 ... "9" = 57);               *)
(*   - a sheet name is a sequence of character codes;                      *)
(*   - a line of the change list is a record [kind, n, cell, sheet]: kind  *)
(*     names the template literal that produced the line, and n, cell and  *)
(*     sheet are the strings interpolated into it (<<>> when the template  *)
(*     has no such hole).  The fixed words of the five templates differ    *)
(*     and delimit the holes, so two lines are the same string exactly     *)
(*     when the records are equal.                                         *)
(***************************************************************************)
EXTENDS Integers, Sequences, FiniteSets, TLC

VARIABLES
    sourceSheets,      \* sourceSpreadsheet.getSheets(), each with its data range values
    backupSheets,      \* comparisonSpreadsheet.getSheets(), each with its data range values
    backupFileExists,  \* backupsFolder.getFilesByName(spreadsheetNameToFind).hasNext()
    pc,                \* position of the call under study
    sheetPairs,        \* const sheetPairs of compileBackupReport_ (<<>> before the call)
    report,            \* value returned by compileBackupReport_ (NoReport before / on throw)
    column,            \* argument of convertToColumnLetters_
    letters,           \* value returned by convertToColumnLetters_ (<<>> before / on throw)
    thrown,            \* the error a call has raised (NoError while none)
    resources,         \* names and IDs of the folder and the two spreadsheets
    secondExists,      \* existence answer given to a second compileBackupReport_ call
    secondReport,      \* value returned by the second call (NoReport before)
    secondSheets,      \* the two sheet lists given to the second call
    forceBackup,       \* backupForced of formatBackupReport_, forceBackup of a run
    formatted,         \* value returned by formatBackupReport_ (<<>> before)
    sourceFound,       \* does SpreadsheetApp.openById give the source spreadsheet
    folderFound,       \* does DriveApp.getFolderById give the backups folder
    folderFiles,       \* files of the backups folder, in iteration order
    emails,            \* emails sent by the run, oldest first
    copyDone,          \* has copySpreadsheet_ completed in the run
    runNumber,         \* which run of the script this is, the first being 1
    overlapRuns,       \* the runs of the script that overlap, each with its position
    value1,            \* first argument of areValuesDifferent_
    value2,            \* second argument of areValuesDifferent_
    valuesDiffer       \* value returned by areValuesDifferent_ (FALSE before the call)

compileInputs == <<sourceSheets, backupSheets, backupFileExists, resources>>
compileVars == <<compileInputs, sheetPairs, report>>
secondVars == <<secondExists, secondReport, secondSheets>>
formatVars == <<forceBackup, formatted>>
runVars == <<sourceFound, folderFound, folderFiles, emails, copyDone, runNumber,
             overlapRuns>>
codecVars == <<column, letters>>
valueVars == <<value1, value2, valuesDiffer>>

vars == <<compileVars, pc, codecVars, thrown, valueVars, secondVars, formatVars, runVars>>

(***************************************************************************)
(* Bounds of the model.                                                    *)
(***************************************************************************)
\* largest integer part of a column number handed to the codec
MaxColumn == 18280
\* smallest integer part of a column number handed to the codec is -MinColumnBelow
MinColumnBelow == 2

(***************************************************************************)
(* Column label codec: convertToColumnLetters_                             *)
(***************************************************************************)
\* first column number the codec rejects as too large
COLUMN_LIMIT == 18278

ASCII_A == 65

\* A JavaScript number is modelled as n + (half ? 0.5 : 0): an integer or the
\* number halfway between two integers.
Numbers(lo, hi) == [n : lo..hi, half : BOOLEAN]

NumberIsInteger(c) == ~c.half

\* c < k and c >= k for an integer k
NumberLess(c, k) == c.n < k
NumberAtLeast(c, k) == c.n >= k

\* the guard of the throw statement
\* variant: the upper limit taken one too high
ColumnRejectedOffByOne(c) ==
    ~NumberIsInteger(c) \/ NumberLess(c, 1) \/ NumberAtLeast(c, COLUMN_LIMIT + 1)
ColumnRejected(c) ==
    ~NumberIsInteger(c) \/ NumberLess(c, 1) \/ NumberAtLeast(c, COLUMN_LIMIT)

\* const columnGroupValue = (remainder - 1) % 26
\* variant: ordinary base 26, with a zero digit
ColumnGroupValueZeroDigit(remainder) == remainder % 26
ColumnGroupValue(remainder) == (remainder - 1) % 26

\* the while loop: letterBuffer.unshift(newLetter) until remainder is 0
RECURSIVE ColumnLettersLoop(_, _)
ColumnLettersLoop(remainder, letterBuffer) ==
    IF remainder > 0
    THEN LET columnGroupValue == ColumnGroupValue(remainder)
         IN  ColumnLettersLoop((remainder - columnGroupValue - 1) \div 26,
                               <<columnGroupValue + ASCII_A>> \o letterBuffer)
    ELSE letterBuffer

\* the label of an accepted column (an integer n)
convertToColumnLetters_(n) == ColumnLettersLoop(n, <<>>)

\* throw new RangeError(`Column ${column} is not a valid integer.`)
RangeError(c) ==
    [type |-> "RangeError", message |-> "Column is not a valid integer.", about |-> c.n]
\* no error has been raised
NoError == [type |-> "none", message |-> "", about |-> 0]

Min(a, b) == IF a < b THEN a ELSE b

(***************************************************************************)
(* Strings                                                                 *)
(***************************************************************************)
\* String(n) for an integer n >= 0: its decimal digits
RECURSIVE ToDecimal(_)
ToDecimal(n) ==
    IF n < 10 THEN <<48 + n>>
    ELSE ToDecimal(n \div 10) \o <<48 + (n % 10)>>

\* a < b in the order Array.prototype.sort() uses without a comparator:
\* code unit by code unit, a proper prefix first
StringLess(a, b) ==
    \/ /\ Len(a) < Len(b)
       /\ \A p \in 1..Len(a) : a[p] = b[p]
    \/ \E p \in 1..Len(a) :
          /\ p <= Len(b)
          /\ a[p] < b[p]
          /\ \A q \in 1..(p - 1) : a[q] = b[q]

(***************************************************************************)
(* Cell values: string | number | boolean | Date, and the image handles    *)
(* getValues() returns for cells holding an image.  kind is the run-time   *)
(* kind, val the primitive value, the instant (getTime()) or the URL       *)
(* (getUrl()), and ref the identity of the object (0 for a primitive).     *)
(***************************************************************************)
IsObject(v) == v.kind \in {"date", "image"}

\* v1 !== v2: primitives by kind and value, objects by identity
StrictlyDifferent(v1, v2) ==
    IF IsObject(v1) \/ IsObject(v2)
    THEN ~(IsObject(v1) /\ IsObject(v2) /\ v1 = v2)
    ELSE v1.kind # v2.kind \/ v1.val # v2.val

\* variant: no case for two dates
areValuesDifferentNoDate_(v1, v2) ==
    IF v1.kind = "image" /\ v2.kind = "image"
    THEN v1.val # v2.val
    ELSE StrictlyDifferent(v1, v2)

\* variant: no case for two images
areValuesDifferentNoImage_(v1, v2) ==
    IF v1.kind = "date" /\ v2.kind = "date"
    THEN v1.val # v2.val
    ELSE StrictlyDifferent(v1, v2)

\* variant: v1 != v2 in place of v1 !== v2, a text equals the number it prints
areValuesDifferentLoose_(v1, v2) ==
    IF v1.kind = v2.kind /\ IsObject(v1)
    THEN v1.val # v2.val
    ELSE IF {v1.kind, v2.kind} = {"string", "number"}
         THEN v1.val # v2.val
         ELSE StrictlyDifferent(v1, v2)

\* variant: strict inequality alone, without the date and image cases
areValuesDifferentByIdentity_(v1, v2) == StrictlyDifferent(v1, v2)
areValuesDifferent_(v1, v2) ==
    IF v1.kind = "date" /\ v2.kind = "date"
    THEN v1.val # v2.val
    ELSE LET v1IsImage == v1.kind = "image"
             v2IsImage == v2.kind = "image"
         IN  IF v1IsImage /\ v2IsImage
             THEN v1.val # v2.val
             ELSE StrictlyDifferent(v1, v2)

(***************************************************************************)
(* The lines of the change list                                            *)
(***************************************************************************)
ChangeLine(kind, n, cell, sheet) ==
    [kind |-> kind, n |-> n, cell |-> cell, sheet |-> sheet]

\* `Sheet ${name} deleted from source spreadsheet`
SheetDeletedLine(name) == ChangeLine("sheetDeleted", <<>>, <<>>, name)
\* `Sheet ${sourceName} added since last backup`
SheetAddedLine(name) == ChangeLine("sheetAdded", <<>>, <<>>, name)

\* the line pushed when rowDiff !== 0
\* variant: the direction of the delta is lost
RowDiffLineSigned(rowDiff, sourceName) ==
    ChangeLine("rowsAdded", ToDecimal(IF rowDiff > 0 THEN rowDiff ELSE -rowDiff),
               <<>>, sourceName)
RowDiffLine(rowDiff, sourceName) ==
    IF rowDiff > 0
    THEN ChangeLine("rowsAdded", ToDecimal(rowDiff), <<>>, sourceName)
    ELSE ChangeLine("rowsDeleted", ToDecimal(rowDiff * (-1)), <<>>, sourceName)

\* the line pushed when colDiff !== 0
ColDiffLine(colDiff, sourceName) ==
    IF colDiff > 0
    THEN ChangeLine("colsAdded", ToDecimal(colDiff), <<>>, sourceName)
    ELSE ChangeLine("colsDeleted", ToDecimal(colDiff * (-1)), <<>>, sourceName)

\* `Values changed for cell ${col}${row} in sheet ${sourceName}`
\* variant: the row number left zero-based
CellLineZeroBased(i, j, sourceName) ==
    ChangeLine("cellChanged", <<>>,
               convertToColumnLetters_(j + 1) \o ToDecimal(i), sourceName)
CellLine(i, j, sourceName) ==
    LET row == i + 1
        col == convertToColumnLetters_(j + 1)
    IN  ChangeLine("cellChanged", <<>>, col \o ToDecimal(row), sourceName)

(***************************************************************************)
(* Sheets and sheet pairing: pairUpSheets_                                 *)
(*                                                                         *)
(* A sheet is [name, values]: getName() and the values of getDataRange().  *)
(* A slot of a pair is <<>> (null) or <<sheet>>.                           *)
(***************************************************************************)
Null == <<>>

SheetNamesOf(sheets) == [p \in 1..Len(sheets) |-> sheets[p].name]

\* new Map(sheets.map(toMapEntry)).has(name)
MapHas(sheets, name) == \E p \in 1..Len(sheets) : sheets[p].name = name

\* new Map(sheets.map(toMapEntry)).get(name): a later entry replaces an earlier one
MapGet(sheets, name) ==
    LET last == CHOOSE p \in 1..Len(sheets) :
                    /\ sheets[p].name = name
                    /\ \A q \in (p + 1)..Len(sheets) : sheets[q].name # name
    IN  sheets[last]

\* [...new Set(names)]: the first occurrence of every name, in order
RECURSIVE SetOrder(_, _)
SetOrder(names, kept) ==
    IF names = <<>> THEN kept
    ELSE IF \E p \in 1..Len(kept) : kept[p] = Head(names)
         THEN SetOrder(Tail(names), kept)
         ELSE SetOrder(Tail(names), Append(kept, Head(names)))

\* names.sort(): insertion of each name before the first one that is greater
RECURSIVE InsertSorted(_, _)
InsertSorted(name, sorted) ==
    IF sorted = <<>> THEN <<name>>
    ELSE IF StringLess(name, Head(sorted))
         THEN <<name>> \o sorted
         ELSE <<Head(sorted)>> \o InsertSorted(name, Tail(sorted))

\* variant: the names left in insertion order
SortNamesUnsorted(names) == names
RECURSIVE SortNames(_)
SortNames(names) ==
    IF names = <<>> THEN <<>>
    ELSE InsertSorted(Head(names), SortNames(Tail(names)))

\* variant: the names left in the order of the lists
UniqueSheetNamesInListOrder(sourceSheets_, lastBackupSheets) ==
    SetOrder(SheetNamesOf(sourceSheets_) \o SheetNamesOf(lastBackupSheets), <<>>)
UniqueSheetNames(sourceSheets_, lastBackupSheets) ==
    SortNames(SetOrder(SheetNamesOf(sourceSheets_) \o SheetNamesOf(lastBackupSheets),
                       <<>>))

\* uniqueSheetNames.map((name) => ...)
PairForName(name, sourceSheets_, lastBackupSheets) ==
    LET inSource == MapHas(sourceSheets_, name)
        inBackup == MapHas(lastBackupSheets, name)
    IN  IF inSource /\ inBackup
        THEN <<<<MapGet(sourceSheets_, name)>>, <<MapGet(lastBackupSheets, name)>>>>
        ELSE IF inSource
             THEN <<<<MapGet(sourceSheets_, name)>>, Null>>
             ELSE <<Null, <<MapGet(lastBackupSheets, name)>>>>

pairUpSheets_(sourceSheets_, lastBackupSheets) ==
    LET uniqueSheetNames == UniqueSheetNames(sourceSheets_, lastBackupSheets)
    IN  [p \in 1..Len(uniqueSheetNames) |->
            PairForName(uniqueSheetNames[p], sourceSheets_, lastBackupSheets)]

(***************************************************************************)
(* compileBackupReport_                                                    *)
(*                                                                         *)
(* The loops carry [threw, lines]: lines is detectedChanges, and threw     *)
(* says that convertToColumnLetters_ has raised, which ends every loop.    *)
(* Indices i and j are the zero-based indices of the code.                 *)
(***************************************************************************)
Integer(n) == [n |-> n, half |-> FALSE]

\* for (const [j, sourceValue] of sourceRow.entries())
\* variant: the loop ends at the first changed cell of the row
RECURSIVE CellLoopStopAtFirst(_, _, _, _, _, _)
CellLoopStopAtFirst(j, sourceRow, backupRow, i, sourceName, acc) ==
    IF j >= Len(sourceRow) \/ j >= Len(backupRow)
    THEN acc
    ELSE IF areValuesDifferent_(sourceRow[j + 1], backupRow[j + 1])
         THEN IF ColumnRejected(Integer(j + 1))
              THEN [acc EXCEPT !.threw = TRUE]
              ELSE [acc EXCEPT !.lines = Append(@, CellLine(i, j, sourceName))]
         ELSE CellLoopStopAtFirst(j + 1, sourceRow, backupRow, i, sourceName, acc)
\* The iterations over cells whose two values are not different change
\* nothing: the loop below passes a run of them in one step, to the next index
\* at which it pushes a line, throws or ends.
Least(numbers) == CHOOSE m \in numbers : \A other \in numbers : m <= other
NextIndexOfInterest(j, sourceRow, backupRow) ==
    LET limit == Min(Len(sourceRow), Len(backupRow))
    IN  Least({limit} \cup
              {m \in (j + 1)..(limit - 1) :
                  areValuesDifferent_(sourceRow[m + 1], backupRow[m + 1])})

RECURSIVE CellLoop(_, _, _, _, _, _)
CellLoop(j, sourceRow, backupRow, i, sourceName, acc) ==
    IF j >= Len(sourceRow)
    THEN acc
    ELSE IF j >= Len(backupRow)                 \* backupValue === undefined: break
         THEN acc
         ELSE IF areValuesDifferent_(sourceRow[j + 1], backupRow[j + 1])
              THEN IF ColumnRejected(Integer(j + 1))
                   THEN [acc EXCEPT !.threw = TRUE,
                                    !.error = RangeError(Integer(j + 1))]
                   ELSE CellLoop(j + 1, sourceRow, backupRow, i, sourceName,
                            [acc EXCEPT !.lines = Append(@, CellLine(i, j, sourceName))])
              ELSE CellLoop(NextIndexOfInterest(j, sourceRow, backupRow),
                            sourceRow, backupRow, i, sourceName, acc)

\* the column count check of one row
ColCheck(i, sourceRow, backupRow, sourceName, acc) ==
    LET colDiff == Len(sourceRow) - Len(backupRow)
    IN  IF colDiff # 0
        THEN [acc EXCEPT !.lines = Append(@, ColDiffLine(colDiff, sourceName))]
        ELSE acc

\* for (const [i, sourceRow] of sourceValues.entries())
RECURSIVE RowLoop(_, _, _, _, _)
RowLoop(i, sourceValues, backupValues, sourceName, acc) ==
    IF acc.threw \/ i >= Len(sourceValues)
    THEN acc
    ELSE IF i >= Len(backupValues)              \* backupRow === undefined: break
         THEN acc
         ELSE LET sourceRow == sourceValues[i + 1]
                  backupRow == backupValues[i + 1]
                  checked == ColCheck(i, sourceRow, backupRow, sourceName, acc)
              IN  RowLoop(i + 1, sourceValues, backupValues, sourceName,
                          CellLoop(0, sourceRow, backupRow, i, sourceName, checked))

\* the row count check of one sheet
RowCheck(sourceValues, backupValues, sourceName, acc) ==
    LET rowDiff == Len(sourceValues) - Len(backupValues)
    IN  IF rowDiff # 0
        THEN [acc EXCEPT !.lines = Append(@, RowDiffLine(rowDiff, sourceName))]
        ELSE acc

\* variant: the row count check made after the rows have been compared
CompareGridsRowCheckLast(sourceValues, backupValues, sourceName, acc) ==
    RowCheck(sourceValues, backupValues, sourceName,
             RowLoop(0, sourceValues, backupValues, sourceName, acc))

\* the comparison of the two grids of a sheet present on both sides
CompareGrids(sourceValues, backupValues, sourceName, acc) ==
    RowLoop(0, sourceValues, backupValues, sourceName,
            RowCheck(sourceValues, backupValues, sourceName, acc))

\* the body of for (const [sourceSheet, lastBackupSheet] of sheetPairs)
\* variant: the two one-sided messages exchanged
PairBodySwapped(pair, acc) ==
    IF pair[1] = Null
    THEN [acc EXCEPT !.lines = Append(@, SheetAddedLine(pair[2][1].name))]
    ELSE IF pair[2] = Null
         THEN [acc EXCEPT !.lines = Append(@, SheetDeletedLine(pair[1][1].name))]
         ELSE CompareGrids(pair[1][1].values, pair[2][1].values, pair[1][1].name, acc)
PairBody(pair, acc) ==
    LET sourceSheet == pair[1]
        lastBackupSheet == pair[2]
    IN  IF sourceSheet = Null
        THEN [acc EXCEPT !.lines = Append(@, SheetDeletedLine(lastBackupSheet[1].name))]
        ELSE LET sourceName == sourceSheet[1].name
             IN  IF lastBackupSheet = Null
                 THEN [acc EXCEPT !.lines = Append(@, SheetAddedLine(sourceName))]
                 ELSE CompareGrids(sourceSheet[1].values, lastBackupSheet[1].values,
                                   sourceName, acc)

RECURSIVE PairLoop(_, _, _)
PairLoop(k, pairs, acc) ==
    IF acc.threw \/ k > Len(pairs)
    THEN acc
    ELSE PairLoop(k + 1, pairs, PairBody(pairs[k], acc))

DetectedChanges(pairs) ==
    PairLoop(1, pairs, [threw |-> FALSE, lines |-> <<>>, error |-> NoError])

\* the object literal of the return statement
\* variant: a backup is always reported as needed
BackupNeededAlways(detectedChanges) == TRUE
BackupNeeded(detectedChanges) == Len(detectedChanges) > 0

\* name and ID of a folder or a spreadsheet
Resource(name, id) == [name |-> name, id |-> id]
NoResource == Resource(<<>>, 0)

\* variant: a backup that is not needed is not reported as existing
BackupReportCoerced(named, detectedChanges, exists) ==
    [folder |-> named.folder,
     sourceSpreadsheet |-> named.sourceSpreadsheet,
     comparisonSpreadsheet |-> named.comparisonSpreadsheet,
     backupNeeded |-> BackupNeeded(detectedChanges),
     changes |-> detectedChanges,
     backupAlreadyExists |-> exists /\ BackupNeeded(detectedChanges)]
BackupReport(named, detectedChanges, exists) ==
    [folder |-> named.folder,
     sourceSpreadsheet |-> named.sourceSpreadsheet,
     comparisonSpreadsheet |-> named.comparisonSpreadsheet,
     backupNeeded |-> BackupNeeded(detectedChanges),
     changes |-> detectedChanges,
     backupAlreadyExists |-> exists]

\* placeholder held by report while no report has been returned
NoReport ==
    [folder |-> NoResource,
     sourceSpreadsheet |-> NoResource,
     comparisonSpreadsheet |-> NoResource,
     backupNeeded |-> FALSE, changes |-> <<>>, backupAlreadyExists |-> FALSE]

\* variant: the lines collected before a throw are returned as a report
OutcomePartial(named, detected, exists) ==
    [threw |-> detected.threw,
     error |-> detected.error,
     report |-> BackupReport(named, detected.lines, exists)]
\* how a call ends: a throw inside the loops leaves the function at once,
\* otherwise the return statement builds the report
Outcome(named, detected, exists) ==
    [threw |-> detected.threw,
     error |-> detected.error,
     report |-> IF detected.threw
                THEN NoReport
                ELSE BackupReport(named, detected.lines, exists)]

(***************************************************************************)
(* Texts: formatBackupReport_                                              *)
(*                                                                         *)
(* A text is the sequence of its lines (the text split at "\n"); the empty *)
(* string is one empty line.  A line is the template literal that built    *)
(* it, named by kind, with the values put into its placeholders.           *)
(***************************************************************************)
TextLine(kind, name, id, word, change) ==
    [kind |-> kind, name |-> name, id |-> id, word |-> word, change |-> change]
NoChange == ChangeLine("none", <<>>, <<>>, <<>>)
Literal(kind) == <<TextLine(kind, <<>>, 0, "", NoChange)>>
EmptyText == Literal("empty")

\* texts.join("\n")
RECURSIVE JoinLines(_)
JoinLines(texts) ==
    IF texts = <<>> THEN EmptyText
    ELSE IF Len(texts) = 1 THEN texts[1]
    ELSE texts[1] \o JoinLines(Tail(texts))

\* (b) => (b === true ? "Yes" : "No")
toWord(b) == IF b = TRUE THEN "Yes" ELSE "No"

\* `... "${resource.name}" (ID ${resource.id})`
ResourceLine(kind, resource) ==
    <<TextLine(kind, resource.name, resource.id, "", NoChange)>>
\* `...? ${toWord(b)}.`
WordLine(kind, b) == <<TextLine(kind, <<>>, 0, toWord(b), NoChange)>>
\* `- ${l}`
BulletLine(l) == <<TextLine("bullet", <<>>, 0, "", l)>>

\* variant: the answers of the already-exists and changes lines exchanged
formatBackupReportExchanged_(report_, backupForced) ==
    LET bullets == JoinLines([p \in 1..Len(report_.changes) |->
                                 BulletLine(report_.changes[p])])
        changeList == IF bullets = EmptyText THEN Literal("none") ELSE bullets
    IN  JoinLines(<<Literal("title"),
                    ResourceLine("folder", report_.folder),
                    ResourceLine("source", report_.sourceSpreadsheet),
                    ResourceLine("comparison", report_.comparisonSpreadsheet),
                    EmptyText,
                    WordLine("exists", report_.backupNeeded),
                    WordLine("needed", report_.backupAlreadyExists),
                    WordLine("forced", backupForced),
                    EmptyText,
                    Literal("heading"),
                    changeList>>)
formatBackupReport_(report_, backupForced) ==
    LET bullets == JoinLines([p \in 1..Len(report_.changes) |->
                                 BulletLine(report_.changes[p])])
        changeList == IF bullets = EmptyText THEN Literal("none") ELSE bullets
    IN  JoinLines(<<Literal("title"),
                    ResourceLine("folder", report_.folder),
                    ResourceLine("source", report_.sourceSpreadsheet),
                    ResourceLine("comparison", report_.comparisonSpreadsheet),
                    EmptyText,
                    WordLine("exists", report_.backupAlreadyExists),
                    WordLine("needed", report_.backupNeeded),
                    WordLine("forced", backupForced),
                    EmptyText,
                    Literal("heading"),
                    changeList>>)

\* variant: the sheet list itself is sorted by name, in place
SheetsAfterCompileSorted(sheets) ==
    LET names == SortNames(SheetNamesOf(sheets))
    IN  [p \in 1..Len(sheets) |-> MapGet(sheets, names[p])]
\* what a call leaves of a sheet list it was given: the call reads names and
\* values, and sort() acts on the array of names built by the spread, so the
\* list holds the same sheets in the same order with the same grids
SheetsAfterCompile(sheets) == sheets

\* what a call leaves of the files of the folder: the call iterates over
\* them and reads the sheets of the comparison spreadsheet
FilesAfterCompile(files, comparisonId) ==
    [k \in 1..Len(files) |->
        IF files[k].id = comparisonId
        THEN [files[k] EXCEPT !.sheets = SheetsAfterCompile(@)]
        ELSE files[k]]

\* the last column a sheet can have, ZZZ (the number the codec's guard names)
LastColumn == COLUMN_LIMIT

\* compileBackupReport_ on the sheets of the two spreadsheets
compileBackupReport_(sourceSheets_, backupSheets_, named, exists) ==
    Outcome(named, DetectedChanges(pairUpSheets_(sourceSheets_, backupSheets_)), exists)

(***************************************************************************)
(* Inputs                                                                  *)
(***************************************************************************)
\* the names and IDs the folder and the two spreadsheets answer with: the
\* folder "F", the source spreadsheet "S", the comparison spreadsheet "t"
SampleResources ==
    [folder |-> Resource(<<70>>, 1),
     sourceSpreadsheet |-> Resource(<<83>>, 2),
     comparisonSpreadsheet |-> Resource(<<116>>, 3)]
NoResources ==
    [folder |-> NoResource,
     sourceSpreadsheet |-> NoResource,
     comparisonSpreadsheet |-> NoResource]
\* most sheets in one spreadsheet of the document-level inputs
MaxSheets == 2
\* most rows and columns of a grid of the one-sheet inputs
MaxRows == 2
MaxCols == 2
\* rows and columns of the wide one-sheet inputs
WideRows == 5
WideCols == 28
\* columns at the right edge of a full-width sheet in which the inputs place
\* changed cells
EdgeCols == 2
\* most files in the backups folder before a run, and the latest instant at
\* which one of them was created
MaxFiles == 2
MaxInstant == 2
\* most runs of the script, one after the other
MaxRuns == 2
\* most change lines of the reports given to formatBackupReport_
MaxChanges == 2
\* most primitive values, instants and URLs, and most objects, of the inputs
\* of the value comparison
MaxVal == 2
MaxRef == 2

StringValue(s) == [kind |-> "string", val |-> s, ref |-> 0]
NumberValue(x) == [kind |-> "number", val |-> x, ref |-> 0]
BooleanValue(b) == [kind |-> "boolean", val |-> b, ref |-> 0]
DateValue(t) == [kind |-> "date", val |-> t, ref |-> 0]
ImageValue(url) == [kind |-> "image", val |-> url, ref |-> 0]

\* getValues() builds the objects it returns: the objects of one call are not
\* the objects of another call
ReadBy(v, call) == IF IsObject(v) THEN [v EXCEPT !.ref = call] ELSE v

(***************************************************************************)
(* A run: backupDailyContents and the helpers it calls                     *)
(***************************************************************************)
\* throw new Error(message) / an Error of the platform
Error(message, about) == [type |-> "Error", message |-> message, about |-> about]

\* a file of the backups folder: a spreadsheet with an ID, a name, a creation
\* instant and sheets
File(id, name, created, sheets) ==
    [id |-> id, name |-> name, created |-> created, sheets |-> sheets]

\* folder.getFilesByName(name).hasNext()
HasFileNamed(files, name) == \E k \in 1..Len(files) : files[k].name = name

\* the day of the run, and the stamp getFormattedDateStamp_ makes of a day
RunDay == 2
getFormattedDateStamp_(day) == ToDecimal(day)
\* `tracker_${getFormattedDateStamp_()}`
BaseSpreadsheetName(day) ==
    <<116, 114, 97, 99, 107, 101, 114, 95>> \o getFormattedDateStamp_(day)

\* index === 0 ? fileName : `${fileName} (${index})`
CurrentName(fileName, index) ==
    IF index = 0 THEN fileName ELSE fileName \o <<32, 40>> \o ToDecimal(index) \o <<41>>

\* variant: the loop body runs at most twice
NextPossibleNameLoopTwice(files, fileName, index) ==
    IF HasFileNamed(files, CurrentName(fileName, index))
    THEN CurrentName(fileName, index + 1)
    ELSE CurrentName(fileName, index)
\* the do ... while loop of getNextPossibleName_, from index on
RECURSIVE NextPossibleNameLoop(_, _, _)
NextPossibleNameLoop(files, fileName, index) ==
    IF HasFileNamed(files, CurrentName(fileName, index))
    THEN NextPossibleNameLoop(files, fileName, index + 1)
    ELSE CurrentName(fileName, index)
getNextPossibleName_(files, fileName) == NextPossibleNameLoop(files, fileName, 0)

\* variant: a file created at the same instant replaces the one kept
RECURSIVE NewestFileLoopLastOnTie(_, _, _)
NewestFileLoopLastOnTie(files, k, newestFileRef) ==
    IF k > Len(files) THEN newestFileRef
    ELSE IF files[k].created >= newestFileRef.created
         THEN NewestFileLoopLastOnTie(files, k + 1, files[k])
         ELSE NewestFileLoopLastOnTie(files, k + 1, newestFileRef)
\* the while loop of getIdNewestFile_, from the k-th file on
RECURSIVE NewestFileLoop(_, _, _)
NewestFileLoop(files, k, newestFileRef) ==
    IF k > Len(files) THEN newestFileRef
    ELSE IF files[k].created > newestFileRef.created
         THEN NewestFileLoop(files, k + 1, files[k])
         ELSE NewestFileLoop(files, k + 1, newestFileRef)
\* getIdNewestFile_ on a folder that has files
getIdNewestFile_(files) == NewestFileLoop(files, 2, files[1]).id

\* SpreadsheetApp.openById(id) on a file of the folder
FileById(files, id) == files[CHOOSE k \in 1..Len(files) : files[k].id = id]

\* the sheets of a spreadsheet as one run reads them: getValues() builds the
\* objects it returns
ReadSheets(sheets, call) ==
    [p \in 1..Len(sheets) |->
        [name |-> sheets[p].name,
         values |-> [i \in 1..Len(sheets[p].values) |->
                        [j \in 1..Len(sheets[p].values[i]) |->
                            ReadBy(sheets[p].values[i][j], call)]]]]

\* sheet names are compared without regard to case
LowerCase(name) ==
    [p \in 1..Len(name) |-> IF name[p] \in 65..90 THEN name[p] + 32 ELSE name[p]]
SameSheetName(a, b) == LowerCase(a) = LowerCase(b)

\* the sheet SpreadsheetApp.create gives a new spreadsheet, "Sheet1"
DefaultSheetName == <<83, 104, 101, 101, 116, 49>>

\* the sheets a spreadsheet made by SpreadsheetApp.create starts with
CreatedSheets == <<[name |-> DefaultSheetName, values |-> <<>>]>>

\* "Copy of", the text copyOfMatcher looks for at the start of a name
CopyOf == <<67, 111, 112, 121, 32, 111, 102>>
SpaceChar == 32

\* a spreadsheet holds the name when one of its sheets has it, whatever the case
HoldsSheetName(sheets, name) ==
    \E p \in 1..Len(sheets) : SameSheetName(sheets[p].name, name)

\* the name copyTo gives the sheet it adds to the target: "Copy of <name>",
\* followed by the first number that makes it new when the target holds it
CopyToName(target, name) ==
    LET plain == CopyOf \o <<SpaceChar>> \o name
        numbered(k) == plain \o <<SpaceChar, 48 + k>>
    IN  IF ~HoldsSheetName(target, plain)
        THEN plain
        ELSE numbered(Least({k \in 1..(Len(target) + 1) :
                                ~HoldsSheetName(target, numbered(k))}))

\* the " *" of copyOfMatcher: the spaces that follow the prefix go with it
RECURSIVE DropSpaces(_)
DropSpaces(name) ==
    IF name # <<>> /\ Head(name) = SpaceChar THEN DropSpaces(Tail(name)) ELSE name

\* name.replace(/^Copy of */i, "")
ReplaceCopyOf(name) ==
    IF Len(name) >= Len(CopyOf)
       /\ LowerCase(SubSeq(name, 1, Len(CopyOf))) = LowerCase(CopyOf)
    THEN DropSpaces(SubSeq(name, Len(CopyOf) + 1, Len(name)))
    ELSE name

\* the loop of copySpreadsheet_ over the sheets of the source, from the k-th
\* on: copyTo adds the copy to the target, setName renames it and throws when
\* another sheet of the target holds the new name
RECURSIVE CopyLoop(_, _, _)
CopyLoop(sheets, k, target) ==
    IF k > Len(sheets)
    THEN [threw |-> FALSE, sheets |-> target]
    ELSE LET copyName == CopyToName(target, sheets[k].name)
             newName == ReplaceCopyOf(copyName)
         IN  IF newName = <<>> \/ HoldsSheetName(target, newName)
             THEN [threw |-> TRUE,
                   sheets |-> Append(target, [name |-> copyName,
                                              values |-> sheets[k].values])]
             ELSE CopyLoop(sheets, k + 1,
                           Append(target, [name |-> newName,
                                           values |-> sheets[k].values]))

\* the sheets of the target when copySpreadsheet_ is over: the sheets it was
\* created with are deleted after the loop
CopiedSheets(sheets) ==
    LET loop == CopyLoop(sheets, 1, CreatedSheets)
    IN  IF loop.threw
        THEN loop
        ELSE [loop EXCEPT !.sheets = SubSeq(@, Len(CreatedSheets) + 1, Len(@))]

\* copySpreadsheet_ throws when setName throws
CopyThrows(sheets) == CopiedSheets(sheets).threw

\* the instant of a run: later than the creation of every file the folder
\* held before the first run, and later than the runs before it
Now(run) == MaxInstant + run

\* the file copySpreadsheet_ leaves in the folder when it completes
CopiedFile(sheets, targetName, files, id, now) ==
    File(id, getNextPossibleName_(files, targetName), now, CopiedSheets(sheets).sheets)

InsertAt(files, pos, file) ==
    SubSeq(files, 1, pos) \o <<file>> \o SubSeq(files, pos + 1, Len(files))

\* the emails of a run
PlainLine(l) == <<TextLine("plain", <<>>, 0, "", l)>>
\* `Changes detected:\n${backupReport.changes.join("\n")}`
SuccessBody(report_) ==
    Literal("heading")
    \o JoinLines([p \in 1..Len(report_.changes) |-> PlainLine(report_.changes[p])])
\* err.stack
StackOf(error) == <<TextLine("stack", <<>>, error.about, error.message, NoChange)>>
Email(subject, body) == [subject |-> subject, body |-> body]

CellSamples == {StringValue(1), DateValue(1), DateValue(2), ImageValue(1)}

\* "B", "a", "aB"
SampleNames == {<<66>>, <<97>>, <<97, 66>>}
OneSheetName == <<97>>

ConstGrid(rows, cols, v) == [i \in 1..rows |-> [j \in 1..cols |-> v]]

\* the grid holding z at the zero-based positions of D and y elsewhere
GridWith(rows, cols, y, D, z) ==
    [i \in 1..rows |-> [j \in 1..cols |-> IF <<i - 1, j - 1>> \in D THEN z ELSE y]]

Positions(rows, cols) == (0..(rows - 1)) \X (0..(cols - 1))

\* the grids of the document-level inputs, as read by one getValues() call
SampleGrids(call) ==
    {ConstGrid(1, 1, ReadBy(ImageValue(1), call)),
     ConstGrid(1, 1, ReadBy(DateValue(1), call)),
     ConstGrid(2, 2, ReadBy(NumberValue(1), call))}

RECURSIVE SheetLists(_, _, _)
SheetLists(n, call, used) ==
    IF n = 0 THEN {<<>>}
    ELSE {<<>>} \cup
         UNION {{<<[name |-> nm, values |-> g]>> \o rest :
                    g \in SampleGrids(call),
                    rest \in SheetLists(n - 1, call, used \cup {nm})} :
                nm \in SampleNames \ used}

\* document-level inputs: each spreadsheet holds 1..MaxSheets sheets of distinct
\* names, in any order
InitDocuments ==
    /\ sourceSheets \in SheetLists(MaxSheets, 1, {}) \ {<<>>}
    /\ backupSheets \in SheetLists(MaxSheets, 2, {}) \ {<<>>}

\* one-sheet inputs: a sheet of the same name on both sides; the source grid
\* holds x everywhere, the backup grid z at the positions of D and y elsewhere
InitOneSheet ==
    \E rows \in 1..MaxRows, cols \in 1..MaxCols,
       backupRows \in 1..MaxRows, backupCols \in 1..MaxCols :
    \E D \in SUBSET Positions(Min(rows, backupRows), Min(cols, backupCols)) :
    \E x \in CellSamples, y \in CellSamples, z \in CellSamples :
        /\ sourceSheets =
              <<[name |-> OneSheetName, values |-> ConstGrid(rows, cols, ReadBy(x, 1))]>>
        /\ backupSheets =
              <<[name |-> OneSheetName,
                 values |-> GridWith(backupRows, backupCols, ReadBy(y, 2), D,
                                     ReadBy(z, 2))]>>

\* wide one-sheet inputs: two grids of WideRows x WideCols cells that differ in
\* at most one position
InitWideSheet ==
    \E pos \in Positions(WideRows, WideCols) :
    \E x \in CellSamples, z \in CellSamples :
        /\ sourceSheets =
              <<[name |-> OneSheetName,
                 values |-> ConstGrid(WideRows, WideCols, ReadBy(x, 1))]>>
        /\ backupSheets =
              <<[name |-> OneSheetName,
                 values |-> GridWith(WideRows, WideCols, ReadBy(x, 2), {pos},
                                     ReadBy(z, 2))]>>

\* full-width one-sheet inputs: one row that reaches the last column a sheet
\* can have, or stops one column short of it; the source cells hold one date,
\* the backup cells the same date except, at most, in the first column and in
\* the EdgeCols last columns
InitFullSheet ==
    \E cols \in {LastColumn - 1, LastColumn} :
    \E D \in SUBSET ({<<0, 0>>} \cup {<<0, j>> : j \in (cols - EdgeCols)..(cols - 1)}) :
    \E z \in CellSamples :
        /\ sourceSheets =
              <<[name |-> OneSheetName,
                 values |-> ConstGrid(1, cols, ReadBy(DateValue(1), 1))]>>
        /\ backupSheets =
              <<[name |-> OneSheetName,
                 values |-> GridWith(1, cols, ReadBy(DateValue(1), 2), D, ReadBy(z, 2))]>>

\* no file: what a run holds before SpreadsheetApp.create
NoFile == File(0, <<>>, 0, <<>>)

\* the two runs of backupDailyContents that overlap: the one the daily trigger
\* starts and the one forceManualBackup starts
RunNames == {"trigger", "manual"}
NoRuns == <<>>
StartedRuns ==
    [r \in RunNames |->
        [pc |-> "run", force |-> (r = "manual"), report |-> NoReport, file |-> NoFile]]

\* the values the variables of a call hold in the specifications of other calls
IdleCompile ==
    /\ sourceSheets = <<>>
    /\ backupSheets = <<>>
    /\ backupFileExists = FALSE
    /\ resources = NoResources
    /\ sheetPairs = <<>>
    /\ report = NoReport
IdleSecond ==
    /\ secondExists = FALSE
    /\ secondReport = NoReport
    /\ secondSheets = <<>>
IdleFormat ==
    /\ forceBackup = FALSE
    /\ formatted = <<>>
IdleRun ==
    /\ sourceFound = FALSE
    /\ folderFound = FALSE
    /\ folderFiles = <<>>
    /\ emails = <<>>
    /\ copyDone = FALSE
    /\ runNumber = 1
    /\ overlapRuns = NoRuns
IdleCodec ==
    /\ column = Integer(1)
    /\ letters = <<>>
IdleValues ==
    /\ value1 = StringValue(1)
    /\ value2 = StringValue(1)
    /\ valuesDiffer = FALSE

\* before the call of compileBackupReport_
BeforeCompile ==
    /\ backupFileExists \in BOOLEAN
    /\ resources = SampleResources
    /\ pc = "compile"
    /\ sheetPairs = <<>>
    /\ report = NoReport
    /\ thrown = NoError
    /\ IdleCodec
    /\ IdleValues
    /\ IdleSecond
    /\ IdleFormat
    /\ IdleRun

Init ==
    /\ InitDocuments \/ InitOneSheet \/ InitWideSheet
    /\ BeforeCompile

InitFull ==
    /\ InitFullSheet
    /\ BeforeCompile

\* inputs of two calls on the same two spreadsheets
InitTwice ==
    /\ InitDocuments
    /\ BeforeCompile

\* inputs of two calls that get the same existence answer
InitReordered ==
    /\ InitTwice
    /\ backupFileExists

InitCodec ==
    /\ column \in Numbers(-MinColumnBelow, MaxColumn)
    /\ pc = "codec"
    /\ letters = <<>>
    /\ thrown = NoError
    /\ IdleCompile
    /\ IdleValues
    /\ IdleSecond
    /\ IdleFormat
    /\ IdleRun

\* the IDs of the source spreadsheet and of the backups folder
TRACKER_SPREADSHEET_ID == 2
BACKUP_FOLDER_ID == 1

\* the sheets of the source spreadsheet and of the files of the folder
OneDateSheet(name, t) == [name |-> name, values |-> ConstGrid(1, 1, DateValue(t))]
RunSheets ==
    {<<OneDateSheet(OneSheetName, 1)>>,
     <<OneDateSheet(OneSheetName, 2), OneDateSheet(<<66>>, 1)>>}
RunSources ==
    RunSheets \cup {<<OneDateSheet(DefaultSheetName, 1)>>,
                    <<OneDateSheet(CopyOf \o <<SpaceChar>> \o OneSheetName, 1),
                      OneDateSheet(OneSheetName, 1)>>}

\* names of the files of the folder: backups of the day of the run and of the
\* day before
RunFileNames ==
    {BaseSpreadsheetName(RunDay), BaseSpreadsheetName(RunDay - 1),
     CurrentName(BaseSpreadsheetName(RunDay), 1)}

\* the folders of at most n files; the k-th file has the ID 10 + k
RECURSIVE FileLists(_)
FileLists(n) ==
    IF n = 0 THEN {<<>>}
    ELSE FileLists(n - 1) \cup
         {Append(files, File(10 + n, name, created, sheets)) :
             files \in {x \in FileLists(n - 1) : Len(x) = n - 1},
             name \in RunFileNames, created \in 1..MaxInstant, sheets \in RunSheets}

\* before a run of backupDailyContents: a resource that cannot be retrieved
\* shows nothing
InitRun ==
    /\ forceBackup \in BOOLEAN
    /\ sourceFound \in BOOLEAN
    /\ folderFound \in BOOLEAN
    /\ sourceSheets \in (IF sourceFound THEN RunSources ELSE {<<>>})
    /\ folderFiles \in (IF folderFound THEN FileLists(MaxFiles) ELSE {<<>>})
    /\ emails = <<>>
    /\ copyDone = FALSE
    /\ runNumber = 1
    /\ overlapRuns = NoRuns
    /\ pc = "run"
    /\ backupSheets = <<>>
    /\ backupFileExists = FALSE
    /\ resources = NoResources
    /\ sheetPairs = <<>>
    /\ report = NoReport
    /\ thrown = NoError
    /\ formatted = <<>>
    /\ IdleCodec
    /\ IdleValues
    /\ IdleSecond

\* before the first of several runs: the folder has room for the files the
\* runs add
InitRuns ==
    /\ InitRun
    /\ Len(folderFiles) < MaxFiles

\* change lines of the reports given to formatBackupReport_
SampleLines ==
    {SheetAddedLine(<<66>>), RowDiffLine(-1, OneSheetName), CellLine(0, 1, OneSheetName)}
RECURSIVE LineLists(_)
LineLists(n) ==
    IF n = 0 THEN {<<>>}
    ELSE LineLists(n - 1) \cup
         {Append(lines, l) : lines \in {x \in LineLists(n - 1) : Len(x) = n - 1},
                             l \in SampleLines}

\* the arguments of one call of formatBackupReport_: a report as
\* compileBackupReport_ builds them, and the flag
InitFormat ==
    /\ \E changes \in LineLists(MaxChanges), exists \in BOOLEAN,
          comparison \in {Resource(<<116>>, 3), Resource(<<116, 49>>, 4)} :
          report = BackupReport([SampleResources EXCEPT
                                    !.comparisonSpreadsheet = comparison],
                                changes, exists)
    /\ forceBackup \in BOOLEAN
    /\ formatted = <<>>
    /\ pc = "format"
    /\ sourceSheets = <<>>
    /\ backupSheets = <<>>
    /\ backupFileExists = FALSE
    /\ resources = NoResources
    /\ sheetPairs = <<>>
    /\ thrown = NoError
    /\ IdleCodec
    /\ IdleValues
    /\ IdleSecond
    /\ IdleRun

\* the arguments of one call of areValuesDifferent_: a primitive, or an object
\* that is one of MaxRef objects
ValueInputs ==
    {StringValue(x) : x \in 1..MaxVal} \cup {NumberValue(x) : x \in 1..MaxVal}
    \cup {BooleanValue(x) : x \in 0..1}
    \cup {ReadBy(DateValue(x), r) : x \in 1..MaxVal, r \in 1..MaxRef}
    \cup {ReadBy(ImageValue(x), r) : x \in 1..MaxVal, r \in 1..MaxRef}

\* one object has one instant or one URL
OneObject(a, b) == (IsObject(a) /\ IsObject(b) /\ a.ref = b.ref) => a = b

InitValues ==
    /\ value1 \in ValueInputs
    /\ value2 \in ValueInputs
    /\ OneObject(value1, value2)
    /\ valuesDiffer = FALSE
    /\ pc = "values"
    /\ thrown = NoError
    /\ IdleCompile
    /\ IdleCodec
    /\ IdleSecond
    /\ IdleFormat
    /\ IdleRun

(***************************************************************************)
(* Actions                                                                 *)
(***************************************************************************)
\* one call of compileBackupReport_ on the two spreadsheets
Compile ==
    /\ pc = "compile"
    /\ \E outcome \in {compileBackupReport_(sourceSheets, backupSheets, resources,
                                             backupFileExists)} :
           /\ sheetPairs' = pairUpSheets_(sourceSheets, backupSheets)
           /\ pc' = IF outcome.threw THEN "threw" ELSE "returned"
           /\ report' = outcome.report
           /\ thrown' = outcome.error
    /\ sourceSheets' = SheetsAfterCompile(sourceSheets)
    /\ backupSheets' = SheetsAfterCompile(backupSheets)
    /\ UNCHANGED <<backupFileExists, resources, codecVars, valueVars, secondVars,
                   formatVars, runVars>>

\* a second call on the same two spreadsheets, the folder answering the
\* existence question afresh
CompileAgain ==
    /\ pc = "returned"
    /\ \E exists \in BOOLEAN :
          \E outcome \in {compileBackupReport_(sourceSheets, backupSheets, resources,
                                                exists)} :
              /\ secondExists' = exists
              /\ secondSheets' = <<sourceSheets, backupSheets>>
              /\ secondReport' = outcome.report
              /\ pc' = IF outcome.threw THEN "threwAgain" ELSE "returnedAgain"
              /\ thrown' = outcome.error
    /\ UNCHANGED <<compileVars, codecVars, valueVars, formatVars, runVars>>

\* one call of convertToColumnLetters_
Convert ==
    /\ pc = "codec"
    /\ IF ColumnRejected(column)
       THEN /\ pc' = "codecThrew"
            /\ letters' = <<>>
            /\ thrown' = RangeError(column)
       ELSE /\ pc' = "codecReturned"
            /\ letters' = convertToColumnLetters_(column.n)
            /\ thrown' = NoError
    /\ UNCHANGED <<compileVars, column, valueVars, secondVars, formatVars, runVars>>

\* one call of areValuesDifferent_
CompareValues ==
    /\ pc = "values"
    /\ valuesDiffer' = areValuesDifferent_(value1, value2)
    /\ pc' = "valuesReturned"
    /\ UNCHANGED <<compileVars, codecVars, thrown, value1, value2, secondVars, formatVars,
                   runVars>>

Next == Compile

Spec == Init /\ [][Next]_vars

SpecFull == InitFull /\ [][Next]_vars

\* one call of formatBackupReport_
Format ==
    /\ pc = "format"
    /\ formatted' = formatBackupReport_(report, forceBackup)
    /\ pc' = "formatReturned"
    /\ UNCHANGED <<compileVars, codecVars, thrown, valueVars, secondVars, forceBackup,
                   runVars>>

\* the catch block of backupDailyContents: the error is logged and mailed
\* a gate that lets a run copy only when the report asks for a backup
StopsBeforeCopyUnlessNeeded(force, report_) ==
    ~force /\ (report_.backupAlreadyExists \/ ~report_.backupNeeded)

\* if (!forceBackup && backupReport.backupAlreadyExists) { ...; return; }
StopsBeforeCopy(force, report_) == ~force /\ report_.backupAlreadyExists

\* a catch block that sends the error email after a throw and the success
\* email as well
CaughtAfterSuccess(error) ==
    /\ thrown' = error
    /\ emails' = emails \o <<Email("error", StackOf(error)),
                             Email("success", SuccessBody(report))>>
    /\ pc' = "failed"

\* the catch block of backupDailyContents: thrown is the error it caught; the
\* error email is sent, unless GmailApp.sendEmail throws in its turn, and then
\* that exception escapes the run
Caught(error) ==
    /\ thrown' = error
    /\ \E sent \in BOOLEAN :
          IF sent
          THEN /\ emails' = Append(emails, Email("error", StackOf(error)))
               /\ pc' = "failed"
          ELSE /\ emails' = emails
               /\ pc' = "escaped"

\* backupDailyContents up to the decision to copy: the two resources are
\* retrieved, the report is compiled against the newest file of the folder
\* and logged, and a run that is not forced stops when the backup of the day
\* exists
RunCompile ==
    /\ pc = "run"
    /\ IF ~sourceFound
       THEN /\ Caught(Error("Spreadsheet unavailable", TRACKER_SPREADSHEET_ID))
            /\ UNCHANGED <<sourceSheets, folderFiles, backupSheets, backupFileExists,
                           resources, sheetPairs, report>>
       ELSE IF ~folderFound
       THEN /\ Caught(Error("Folder unavailable", BACKUP_FOLDER_ID))
            /\ UNCHANGED <<sourceSheets, folderFiles, backupSheets, backupFileExists,
                           resources, sheetPairs, report>>
       ELSE IF folderFiles = <<>>
       THEN /\ Caught(Error("Folder is empty.", BACKUP_FOLDER_ID))
            /\ UNCHANGED <<sourceSheets, folderFiles, backupSheets, backupFileExists,
                           resources, sheetPairs, report>>
       ELSE \E comparisonSpreadsheet \in
                  {FileById(folderFiles, getIdNewestFile_(folderFiles))} :
            \E named \in
                  {[folder |-> Resource(<<70>>, BACKUP_FOLDER_ID),
                    sourceSpreadsheet |-> Resource(<<83>>, TRACKER_SPREADSHEET_ID),
                    comparisonSpreadsheet |->
                        Resource(comparisonSpreadsheet.name, comparisonSpreadsheet.id)]} :
            \E exists \in {HasFileNamed(folderFiles, BaseSpreadsheetName(RunDay))} :
            \E outcome \in
                  {compileBackupReport_(ReadSheets(sourceSheets, 1),
                                        ReadSheets(comparisonSpreadsheet.sheets, 2),
                                        named, exists)} :
               /\ sourceSheets' = SheetsAfterCompile(sourceSheets)
               /\ folderFiles' = FilesAfterCompile(folderFiles, comparisonSpreadsheet.id)
               /\ backupSheets' = SheetsAfterCompile(comparisonSpreadsheet.sheets)
               /\ backupFileExists' = exists
               /\ resources' = named
               /\ sheetPairs' = pairUpSheets_(ReadSheets(sourceSheets, 1),
                                              ReadSheets(comparisonSpreadsheet.sheets, 2))
               /\ report' = outcome.report
               /\ IF outcome.threw
                  THEN Caught(outcome.error)
                  ELSE /\ thrown' = NoError
                       /\ emails' = emails
                       /\ pc' = IF StopsBeforeCopy(forceBackup, outcome.report)
                                THEN "stopped"
                                ELSE "proceed"
    /\ UNCHANGED <<codecVars, valueVars, secondVars, formatVars, sourceFound,
                   folderFound, copyDone, runNumber, overlapRuns>>

\* copySpreadsheet_(sourceSpreadsheet, baseSpreadsheetName, backupsFolder);
\* the folder lists the new file at any place among its files
RunCopy ==
    /\ pc = "proceed"
    /\ IF CopyThrows(sourceSheets)
       THEN /\ Caught(Error("A sheet with that name already exists.",
                            TRACKER_SPREADSHEET_ID))
            /\ UNCHANGED <<folderFiles, copyDone>>
       ELSE /\ \E pos \in 0..Len(folderFiles) :
                  folderFiles' =
                      InsertAt(folderFiles, pos,
                               CopiedFile(sourceSheets, BaseSpreadsheetName(RunDay),
                                          folderFiles, 10 + Len(folderFiles) + 1,
                                          Now(runNumber)))
            /\ copyDone' = TRUE
            /\ pc' = "copied"
            /\ UNCHANGED <<thrown, emails>>
    /\ UNCHANGED <<compileVars, codecVars, valueVars, secondVars, formatVars,
                   sourceFound, folderFound, runNumber, overlapRuns>>

\* the success email that ends a run that copied
RunNotify ==
    /\ pc = "copied"
    /\ \E sent \in BOOLEAN :
          IF sent
          THEN /\ emails' = Append(emails, Email("success", SuccessBody(report)))
               /\ pc' = "done"
               /\ UNCHANGED thrown
          ELSE Caught(Error("Email not sent", TRACKER_SPREADSHEET_ID))
    /\ UNCHANGED <<compileVars, codecVars, valueVars, secondVars, formatVars,
                   sourceFound, folderFound, folderFiles, copyDone, runNumber,
                   overlapRuns>>

\* the next run of the script on the same day, after the run before it has
\* ended; nobody has touched the source spreadsheet or the folder in between
RunAgain ==
    /\ pc \in {"done", "stopped", "failed", "escaped"}
    /\ runNumber < MaxRuns
    /\ runNumber' = runNumber + 1
    /\ forceBackup' \in BOOLEAN
    /\ pc' = "run"
    /\ emails' = <<>>
    /\ copyDone' = FALSE
    /\ backupSheets' = <<>>
    /\ backupFileExists' = FALSE
    /\ resources' = NoResources
    /\ sheetPairs' = <<>>
    /\ report' = NoReport
    /\ thrown' = NoError
    /\ UNCHANGED <<sourceSheets, codecVars, valueVars, secondVars, formatted,
                   sourceFound, folderFound, folderFiles, overlapRuns>>

NextRuns == RunCompile \/ RunCopy \/ RunNotify \/ RunAgain

SpecRuns == InitRuns /\ [][NextRuns]_vars

\* two runs on the same day, the source and the folder retrieved by both
InitOverlap ==
    /\ sourceFound = TRUE
    /\ folderFound = TRUE
    /\ sourceSheets \in RunSources
    /\ folderFiles \in FileLists(MaxFiles)
    /\ overlapRuns = StartedRuns
    /\ emails = <<>>
    /\ copyDone = FALSE
    /\ runNumber = 1
    /\ pc = "overlap"
    /\ backupSheets = <<>>
    /\ backupFileExists = FALSE
    /\ resources = NoResources
    /\ sheetPairs = <<>>
    /\ report = NoReport
    /\ thrown = NoError
    /\ IdleFormat
    /\ IdleCodec
    /\ IdleValues
    /\ IdleSecond

\* the files the runs have created so far, moved into the folder or not
CreatedByRuns == {r \in RunNames : overlapRuns[r].file # NoFile}

\* the catch block of run r
OverlapCaught(r, error) ==
    /\ thrown' = error
    /\ \E sent \in BOOLEAN :
          IF sent
          THEN /\ emails' = Append(emails, Email("error", StackOf(error)))
               /\ overlapRuns' = [overlapRuns EXCEPT ![r].pc = "failed"]
          ELSE /\ emails' = emails
               /\ overlapRuns' = [overlapRuns EXCEPT ![r].pc = "escaped"]

\* run r up to the decision to copy
OverlapCompile(r) ==
    /\ pc = "overlap"
    /\ overlapRuns[r].pc = "run"
    /\ IF folderFiles = <<>>
       THEN OverlapCaught(r, Error("Folder is empty.", BACKUP_FOLDER_ID))
       ELSE \E comparisonSpreadsheet \in
                  {FileById(folderFiles, getIdNewestFile_(folderFiles))} :
            \E named \in
                  {[folder |-> Resource(<<70>>, BACKUP_FOLDER_ID),
                    sourceSpreadsheet |-> Resource(<<83>>, TRACKER_SPREADSHEET_ID),
                    comparisonSpreadsheet |->
                        Resource(comparisonSpreadsheet.name, comparisonSpreadsheet.id)]} :
            \E outcome \in
                  {compileBackupReport_(ReadSheets(sourceSheets, 1),
                                        ReadSheets(comparisonSpreadsheet.sheets, 2),
                                        named,
                                        HasFileNamed(folderFiles,
                                                     BaseSpreadsheetName(RunDay)))} :
               IF outcome.threw
               THEN OverlapCaught(r, outcome.error)
               ELSE /\ overlapRuns' =
                          [overlapRuns EXCEPT
                              ![r].report = outcome.report,
                              ![r].pc = IF StopsBeforeCopy(overlapRuns[r].force,
                                                           outcome.report)
                                        THEN "stopped"
                                        ELSE "proceed"]
                    /\ UNCHANGED <<thrown, emails>>
    /\ UNCHANGED <<compileVars, codecVars, valueVars, secondVars, formatVars,
                   sourceFound, folderFound, folderFiles, copyDone, runNumber, pc>>

\* copySpreadsheet_ of run r up to the end of its loops: the target is created
\* under the name getNextPossibleName_ finds free in the folder as it is now,
\* and is not in the folder yet
OverlapCreate(r) ==
    /\ pc = "overlap"
    /\ overlapRuns[r].pc = "proceed"
    /\ IF CopyThrows(sourceSheets)
       THEN OverlapCaught(r, Error("A sheet with that name already exists.",
                                   TRACKER_SPREADSHEET_ID))
       ELSE /\ overlapRuns' =
                  [overlapRuns EXCEPT
                      ![r].file = CopiedFile(sourceSheets, BaseSpreadsheetName(RunDay),
                                             folderFiles,
                                             10 + MaxFiles + Cardinality(CreatedByRuns) + 1,
                                             Now(Cardinality(CreatedByRuns) + 1)),
                      ![r].pc = "created"]
            /\ UNCHANGED <<thrown, emails>>
    /\ UNCHANGED <<compileVars, codecVars, valueVars, secondVars, formatVars,
                   sourceFound, folderFound, folderFiles, copyDone, runNumber, pc>>

\* newSpreadsheetRef.moveTo(destinationFolder) of run r
OverlapMove(r) ==
    /\ pc = "overlap"
    /\ overlapRuns[r].pc = "created"
    /\ \E pos \in 0..Len(folderFiles) :
          folderFiles' = InsertAt(folderFiles, pos, overlapRuns[r].file)
    /\ overlapRuns' = [overlapRuns EXCEPT ![r].pc = "copied"]
    /\ copyDone' = TRUE
    /\ UNCHANGED <<compileVars, codecVars, valueVars, secondVars, formatVars, thrown,
                   sourceFound, folderFound, emails, runNumber, pc>>

\* the success email of run r
OverlapNotify(r) ==
    /\ pc = "overlap"
    /\ overlapRuns[r].pc = "copied"
    /\ \E sent \in BOOLEAN :
          IF sent
          THEN /\ emails' = Append(emails, Email("success",
                                                 SuccessBody(overlapRuns[r].report)))
               /\ overlapRuns' = [overlapRuns EXCEPT ![r].pc = "done"]
               /\ UNCHANGED thrown
          ELSE OverlapCaught(r, Error("Email not sent", TRACKER_SPREADSHEET_ID))
    /\ UNCHANGED <<compileVars, codecVars, valueVars, secondVars, formatVars,
                   sourceFound, folderFound, folderFiles, copyDone, runNumber, pc>>

NextOverlap ==
    \E r \in RunNames :
        OverlapCompile(r) \/ OverlapCreate(r) \/ OverlapMove(r) \/ OverlapNotify(r)

SpecOverlap == InitOverlap /\ [][NextOverlap]_vars

NextRun == RunCompile \/ RunCopy \/ RunNotify

SpecRun == InitRun /\ [][NextRun]_vars

\* the orders in which a spreadsheet can list the sheets it has
Orders(sheets) ==
    {[p \in 1..Len(sheets) |-> sheets[f[p]]] :
        f \in {g \in [1..Len(sheets) -> 1..Len(sheets)] :
                  \A p, q \in 1..Len(sheets) : p # q => g[p] # g[q]}}

\* a second call with the same existence answer on the same two spreadsheets,
\* each listing its sheets in any order
CompileReordered ==
    /\ pc = "returned"
    /\ \E sourceOrder \in Orders(sourceSheets), backupOrder \in Orders(backupSheets) :
          \E outcome \in {compileBackupReport_(sourceOrder, backupOrder, resources,
                                                backupFileExists)} :
              /\ secondExists' = backupFileExists
              /\ secondSheets' = <<sourceOrder, backupOrder>>
              /\ secondReport' = outcome.report
              /\ pc' = IF outcome.threw THEN "threwReordered" ELSE "returnedReordered"
              /\ thrown' = outcome.error
    /\ UNCHANGED <<compileVars, codecVars, valueVars, formatVars, runVars>>

NextReordered == Compile \/ CompileReordered

SpecReordered == InitReordered /\ [][NextReordered]_vars

NextTwice == Compile \/ CompileAgain

SpecTwice == InitTwice /\ [][NextTwice]_vars

NextCodec == Convert

SpecCodec == InitCodec /\ [][NextCodec]_vars

NextValues == CompareValues

NextFormat == Format

SpecFormat == InitFormat /\ [][NextFormat]_vars

SpecValues == InitValues /\ [][NextValues]_vars

(***************************************************************************)
(* Vocabulary of the properties.  None of it is used by the model above:   *)
(* it reads labels and numbers back, and states the value equality rule.   *)
(***************************************************************************)
IsLetter(c) == c \in 65..90
IsDigit(c) == c \in 48..57

\* inverse bijective base-26 decoding, A = 1 ... Z = 26
RECURSIVE DecodeLabel(_)
DecodeLabel(label) ==
    IF label = <<>> THEN 0
    ELSE 26 * DecodeLabel(SubSeq(label, 1, Len(label) - 1)) + (label[Len(label)] - 64)

RECURSIVE DecodeDecimal(_)
DecodeDecimal(digits) ==
    IF digits = <<>> THEN 0
    ELSE 10 * DecodeDecimal(SubSeq(digits, 1, Len(digits) - 1))
         + (digits[Len(digits)] - 48)

IsLabel(label) == label # <<>> /\ \A p \in 1..Len(label) : IsLetter(label[p])
IsDecimal(digits) ==
    /\ digits # <<>>
    /\ \A p \in 1..Len(digits) : IsDigit(digits[p])
    /\ Len(digits) > 1 => digits[1] # 48

\* the letters a cell address starts with, and what follows them
LettersOf(cell) == SelectSeq(cell, IsLetter)
AfterLetters(cell) == SubSeq(cell, Len(LettersOf(cell)) + 1, Len(cell))

\* a cell address: a label followed by a decimal row number
IsAddress(cell) ==
    /\ IsLabel(LettersOf(cell))
    /\ IsDecimal(AfterLetters(cell))
    /\ cell = LettersOf(cell) \o AfterLetters(cell)

\* the zero-based position <<i, j>> a cell address names
PositionOf(cell) ==
    <<DecodeDecimal(AfterLetters(cell)) - 1, DecodeLabel(LettersOf(cell)) - 1>>

\* ordinal order of two strings, by their first code units
RECURSIVE OrdinalLess(_, _)
OrdinalLess(a, b) ==
    IF b = <<>> THEN FALSE
    ELSE IF a = <<>> THEN TRUE
    ELSE IF Head(a) # Head(b) THEN Head(a) < Head(b)
    ELSE OrdinalLess(Tail(a), Tail(b))

\* the value equality rule: same kind and same value, where the value of a
\* date is its instant and the value of an image its URL
SameValue(a, b) == a.kind = b.kind /\ a.val = b.val

NamesIn(sheets) == {sheets[p].name : p \in 1..Len(sheets)}
SheetOf(sheets, name) == sheets[CHOOSE p \in 1..Len(sheets) : sheets[p].name = name]
SourceNames == NamesIn(sourceSheets)
BackupNames == NamesIn(backupSheets)
BothNames == SourceNames \cap BackupNames
SourceGrid(name) == SheetOf(sourceSheets, name).values
BackupGrid(name) == SheetOf(backupSheets, name).values

\* zero-based positions that exist in both grids of a sheet
CommonRows(name) == 0..(Min(Len(SourceGrid(name)), Len(BackupGrid(name))) - 1)
CommonPositions(name) ==
    UNION {{<<i, j>> : j \in 0..(Min(Len(SourceGrid(name)[i + 1]),
                                     Len(BackupGrid(name)[i + 1])) - 1)} :
           i \in CommonRows(name)}

\* the positions of a sheet whose two values are not equal
ChangedPositions(name) ==
    {pos \in CommonPositions(name) :
        ~SameValue(SourceGrid(name)[pos[1] + 1][pos[2] + 1],
                   BackupGrid(name)[pos[1] + 1][pos[2] + 1])}

\* indices of the lines of the report of the given kinds that name the sheet
LinesOf(kinds, name) ==
    {p \in 1..Len(report.changes) :
        report.changes[p].kind \in kinds /\ report.changes[p].sheet = name}

Returned == pc = "returned"

(***************************************************************************)
(* Properties of the change report                                         *)
(***************************************************************************)
CellKinds == {"cellChanged"}
RowKinds == {"rowsAdded", "rowsDeleted"}
ColKinds == {"colsAdded", "colsDeleted"}
SheetKinds == {"sheetAdded", "sheetDeleted"}

\* the positions named by the cell-changed lines of a sheet
ReportedPositions(name) ==
    {PositionOf(report.changes[p].cell) : p \in LinesOf(CellKinds, name)}

\* C1: for a sheet present in both snapshots the report holds exactly one
\* cell-changed line for every common position whose two values are not equal
\* and no cell-changed line for any other position, however many differences
\* precede it in the row, the sheet or the document.
C1_CellDiffComplete ==
    Returned =>
        \A name \in SampleNames :
            IF name \in BothNames
            THEN /\ ReportedPositions(name) = ChangedPositions(name)
                 /\ Cardinality(LinesOf(CellKinds, name))
                        = Cardinality(ChangedPositions(name))
            ELSE LinesOf(CellKinds, name) = {}

\* a sheet with three changed cells, two of them in one row and two of them
\* in different rows, all three reported
C1_Witness ==
    /\ Returned
    /\ \E name \in BothNames :
          /\ Cardinality(ChangedPositions(name)) >= 3
          /\ \E a \in ChangedPositions(name), b \in ChangedPositions(name) :
                a[1] = b[1] /\ a[2] < b[2]
          /\ \E a \in ChangedPositions(name), b \in ChangedPositions(name) :
                a[1] < b[1]
          /\ Cardinality(LinesOf(CellKinds, name)) >= 3

\* the two snapshots hold the same sheet names, and same-named sheets have
\* equal row counts, equal row lengths and pairwise equal values
SnapshotsIdentical ==
    /\ SourceNames = BackupNames
    /\ \A name \in BothNames :
          /\ Len(SourceGrid(name)) = Len(BackupGrid(name))
          /\ \A i \in 1..Len(SourceGrid(name)) :
                /\ Len(SourceGrid(name)[i]) = Len(BackupGrid(name)[i])
                /\ \A j \in 1..Len(SourceGrid(name)[i]) :
                      SameValue(SourceGrid(name)[i][j], BackupGrid(name)[i][j])

\* C2: identical snapshots give a report, with changes = [] and
\* backupNeeded = false, also when equal dates and equal images are distinct
\* objects.
C2_Identity ==
    (pc # "compile" /\ SnapshotsIdentical) =>
        /\ Returned
        /\ report.changes = <<>>
        /\ report.backupNeeded = FALSE

\* identical snapshots whose cells hold a date and an image, each a different
\* object on the two sides
C2_Witness ==
    /\ Returned
    /\ SnapshotsIdentical
    /\ \E name \in BothNames :
          /\ SourceGrid(name)[1][1].kind = "date"
          /\ SourceGrid(name)[1][1] # BackupGrid(name)[1][1]
    /\ \E name \in BothNames :
          /\ SourceGrid(name)[1][1].kind = "image"
          /\ SourceGrid(name)[1][1] # BackupGrid(name)[1][1]

\* C3: backupNeeded of a returned report is true exactly when its changes list
\* is not empty.
C3_NeededIffChanges ==
    Returned => (report.backupNeeded <=> Len(report.changes) # 0)

\* a returned report without changes
C3_Witness ==
    /\ Returned
    /\ report.changes = <<>>
    /\ ~report.backupNeeded

\* C4: a sheet of the source that the backup lacks gets exactly one
\* sheet-added line, a sheet of the backup that the source lacks exactly one
\* sheet-removed line, and neither gets any other line.
C4_OneSidedSheets ==
    Returned =>
        /\ \A name \in SourceNames \ BackupNames :
              /\ Cardinality(LinesOf({"sheetAdded"}, name)) = 1
              /\ LinesOf({"sheetDeleted"} \cup RowKinds \cup ColKinds \cup CellKinds,
                         name) = {}
        /\ \A name \in BackupNames \ SourceNames :
              /\ Cardinality(LinesOf({"sheetDeleted"}, name)) = 1
              /\ LinesOf({"sheetAdded"} \cup RowKinds \cup ColKinds \cup CellKinds,
                         name) = {}

\* a report for a sheet only in the source, a sheet only in the backup and a
\* sheet on both sides whose grids differ
C4_Witness ==
    /\ Returned
    /\ SourceNames \ BackupNames # {}
    /\ BackupNames \ SourceNames # {}
    /\ \E name \in BothNames : LinesOf(RowKinds \cup ColKinds, name) # {}

\* the name a pair stands for
PairName(pair) == IF pair[1] # Null THEN pair[1][1].name ELSE pair[2][1].name

\* the slot pairing must give a name: the sheet of that name, or null
SlotFor(sheets, name) ==
    IF name \in NamesIn(sheets) THEN <<SheetOf(sheets, name)>> ELSE Null

\* C5: pairUpSheets_ returns one pair per name of the union of the two
\* snapshots' sheet names, each name once, in ascending ordinal order; each
\* slot holds the sheet of that name or is absent, and no pair is absent on
\* both sides.
C5_SheetPairing ==
    Returned =>
        /\ {PairName(sheetPairs[p]) : p \in 1..Len(sheetPairs)}
              = SourceNames \cup BackupNames
        /\ \A p \in 1..Len(sheetPairs) :
              /\ ~(sheetPairs[p][1] = Null /\ sheetPairs[p][2] = Null)
              /\ sheetPairs[p][1] = SlotFor(sourceSheets, PairName(sheetPairs[p]))
              /\ sheetPairs[p][2] = SlotFor(backupSheets, PairName(sheetPairs[p]))
        /\ \A p \in 1..(Len(sheetPairs) - 1) :
              OrdinalLess(PairName(sheetPairs[p]), PairName(sheetPairs[p + 1]))

\* three pairs (source only, both, backup only) from a source list that is not
\* in ascending order
C5_Witness ==
    /\ Returned
    /\ Len(sheetPairs) = 3
    /\ \E p \in 1..3 : sheetPairs[p][1] = Null
    /\ \E p \in 1..3 : sheetPairs[p][2] = Null
    /\ \E p \in 1..3 : sheetPairs[p][1] # Null /\ sheetPairs[p][2] # Null
    /\ Len(sourceSheets) = 2
    /\ OrdinalLess(sourceSheets[2].name, sourceSheets[1].name)

\* len(source) - len(backup) of a sheet present on both sides
RowDelta(name) == Len(SourceGrid(name)) - Len(BackupGrid(name))

\* the signed delta a row-count or column-count line encodes
LineDelta(line) ==
    IF line.kind \in {"rowsAdded", "colsAdded"}
    THEN DecodeDecimal(line.n)
    ELSE -DecodeDecimal(line.n)

\* C6: a sheet present on both sides gets exactly one row-count line when the
\* row counts differ and none when they are equal; the line encodes
\* len(source) - len(backup), positive as rows added and negative as rows
\* deleted; the common rows are compared all the same.
C6_RowCountDelta ==
    Returned =>
        \A name \in BothNames :
            /\ Cardinality(LinesOf(RowKinds, name))
                  = (IF RowDelta(name) # 0 THEN 1 ELSE 0)
            /\ \A p \in LinesOf(RowKinds, name) :
                  /\ IsDecimal(report.changes[p].n)
                  /\ LineDelta(report.changes[p]) = RowDelta(name)
            /\ RowDelta(name) # 0 => ReportedPositions(name) = ChangedPositions(name)

\* a sheet that lost rows since the backup and has a changed cell in a common row
C6_Witness ==
    /\ Returned
    /\ \E name \in BothNames :
          /\ RowDelta(name) < 0
          /\ ChangedPositions(name) # {}
          /\ LinesOf({"rowsDeleted"}, name) # {}

\* the common rows of a sheet whose two rows differ in length
RowsOfOtherLength(name) ==
    {i \in CommonRows(name) :
        Len(SourceGrid(name)[i + 1]) # Len(BackupGrid(name)[i + 1])}

\* C7: every common row whose two rows differ in length gets one column-count
\* line carrying the sheet name, the row index and the signed delta, so that
\* the lines of two different rows of one sheet can be told apart.
C7_ColumnCountDelta ==
    Returned =>
        \A name \in BothNames :
            /\ Cardinality(LinesOf(ColKinds, name))
                  = Cardinality(RowsOfOtherLength(name))
            /\ \A p \in LinesOf(ColKinds, name), q \in LinesOf(ColKinds, name) :
                  p # q => report.changes[p] # report.changes[q]

\* C8: the cell-changed line of the zero-based position (i, j) carries the
\* column label of j + 1 followed by the row number i + 1, and the sheet name
\* (row 4, column 27 gives AB5); different positions of a sheet give
\* different lines.
C8_CellAddressing ==
    Returned =>
        \A name \in BothNames :
            /\ \A p \in LinesOf(CellKinds, name) :
                  /\ IsAddress(report.changes[p].cell)
                  /\ PositionOf(report.changes[p].cell) \in ChangedPositions(name)
            /\ \A pos \in ChangedPositions(name) :
                  \E p \in LinesOf(CellKinds, name) :
                      /\ DecodeLabel(LettersOf(report.changes[p].cell)) = pos[2] + 1
                      /\ DecodeDecimal(AfterLetters(report.changes[p].cell)) = pos[1] + 1
            /\ <<4, 27>> \in ChangedPositions(name) =>
                  \E p \in LinesOf(CellKinds, name) :
                      report.changes[p].cell = <<65, 66, 53>>
            /\ \A p \in LinesOf(CellKinds, name), q \in LinesOf(CellKinds, name) :
                  p # q => report.changes[p] # report.changes[q]

\* the report of a change at zero-based row 4, column 27
C8_Witness ==
    /\ Returned
    /\ \E name \in BothNames :
          /\ <<4, 27>> \in ChangedPositions(name)
          /\ \E p \in LinesOf(CellKinds, name) : report.changes[p].cell = <<65, 66, 53>>

(***************************************************************************)
(* Properties of the column label codec                                    *)
(***************************************************************************)
\* C9: for every column the codec accepts, the label is a non-empty string
\* over A-Z whose bijective base-26 decoding is the column; 1 gives A, 26 Z,
\* 27 AA, 28 AB.
C9_CodecRoundTrip ==
    pc = "codecReturned" =>
        /\ IsLabel(letters)
        /\ DecodeLabel(letters) = column.n
        /\ column.n = 1 => letters = <<65>>
        /\ column.n = 26 => letters = <<90>>
        /\ column.n = 27 => letters = <<65, 65>>
        /\ column.n = 28 => letters = <<65, 66>>

\* the last column of two letters, 702 = ZZ
C9_Witness ==
    /\ pc = "codecReturned"
    /\ column.n = 702
    /\ letters = <<90, 90>>

\* C10: the codec raises, and gives no label, for every column that is below
\* 1, is not an integer or is 18278 or more, and for no integer from 1 to
\* 18277.
C10_CodecPrecondition ==
    pc \in {"codecReturned", "codecThrew"} =>
        /\ pc = "codecThrew" <=> (column.half \/ column.n < 1 \/ column.n > 18277)
        /\ pc = "codecThrew" => letters = <<>>
        /\ pc = "codecReturned" => letters # <<>>

\* the first column that is out of range is rejected
C10_Witness ==
    /\ pc = "codecThrew"
    /\ column = Integer(18278)

(***************************************************************************)
(* Order of the lines of the report                                        *)
(***************************************************************************)
\* what a line is about: a sheet, and for a cell line a position
Subject(sheet, level, row, col) ==
    [sheet |-> sheet, level |-> level, row |-> row, col |-> col]

SubjectOf(line) ==
    IF line.kind \in CellKinds
    THEN Subject(line.sheet, "cell", PositionOf(line.cell)[1], PositionOf(line.cell)[2])
    ELSE IF line.kind \in RowKinds THEN Subject(line.sheet, "rows", -1, -1)
    ELSE IF line.kind \in ColKinds THEN Subject(line.sheet, "cols", -1, -1)
    ELSE Subject(line.sheet, "sheet", -1, -1)

\* the changed columns of row i of a sheet, in increasing order
ChangedColumns(name, i) == {pos[2] : pos \in {q \in ChangedPositions(name) : q[1] = i}}
ColumnAt(name, i, k) ==
    CHOOSE j \in ChangedColumns(name, i) :
        Cardinality({m \in ChangedColumns(name, i) : m < j}) = k - 1

\* subjects of row i: its column count, then its changed cells by column
RowSubjects(name, i) ==
    (IF i \in RowsOfOtherLength(name)
     THEN <<Subject(name, "cols", -1, -1)>> ELSE <<>>)
    \o [k \in 1..Cardinality(ChangedColumns(name, i)) |->
           Subject(name, "cell", i, ColumnAt(name, i, k))]

\* subjects of the common rows from row i on, by row index
RECURSIVE RowsSubjects(_, _)
RowsSubjects(name, i) ==
    IF i \notin CommonRows(name) THEN <<>>
    ELSE RowSubjects(name, i) \o RowsSubjects(name, i + 1)

\* subjects of one sheet: the sheet itself when it is on one side only,
\* otherwise its row count, then its rows
SheetSubjects(name) ==
    IF name \notin BothNames
    THEN <<Subject(name, "sheet", -1, -1)>>
    ELSE (IF RowDelta(name) # 0 THEN <<Subject(name, "rows", -1, -1)>> ELSE <<>>)
         \o RowsSubjects(name, 0)

\* the k-th sheet name in ascending ordinal order
AllNames == SourceNames \cup BackupNames
NameAt(k) ==
    CHOOSE name \in AllNames :
        Cardinality({other \in AllNames : OrdinalLess(other, name)}) = k - 1

RECURSIVE SheetsSubjects(_)
SheetsSubjects(k) ==
    IF k > Cardinality(AllNames) THEN <<>>
    ELSE SheetSubjects(NameAt(k)) \o SheetsSubjects(k + 1)

\* C15: the lines of the report are about, in this order: the sheets in
\* ascending name order; within a sheet its row count delta, then its rows by
\* index; within a row its column count delta, then its changed cells by
\* column.
C15_RecordOrder ==
    Returned =>
        [p \in 1..Len(report.changes) |-> SubjectOf(report.changes[p])]
            = SheetsSubjects(1)

\* two sheets present on both sides, each with lines; the first has a row
\* count line, a column count line and a cell line
C15_Witness ==
    /\ Returned
    /\ Cardinality(BothNames) = 2
    /\ \A name \in BothNames : LinesOf(CellKinds \cup RowKinds \cup ColKinds, name) # {}
    /\ LET first == NameAt(1)
       IN  /\ first \in BothNames
           /\ LinesOf(RowKinds, first) # {}
           /\ LinesOf(ColKinds, first) # {}
           /\ LinesOf(CellKinds, first) # {}

\* one sheet with a row count line, and changed cells in two columns of one
\* row and in two rows
C15_RowsAndColumns ==
    /\ Returned
    /\ \E name \in BothNames :
          /\ LinesOf(RowKinds, name) # {}
          /\ \E a, b \in ChangedPositions(name) : a[1] = b[1] /\ a[2] < b[2]

(***************************************************************************)
(* Exceptions of compileBackupReport_ (SpecFull).                          *)
(***************************************************************************)
Threw == pc = "threw"

\* C16: on two snapshots with unique sheet names and grids of text, number,
\* boolean, date and image values, of any size a sheet can have,
\* compileBackupReport_ raises nothing.
C16_NoException == ~Threw

\* C17: when the column label codec raises during compileBackupReport_ no
\* report is returned, whatever lines had been collected, and the error the
\* caller gets is the codec's RangeError for the column of the changed cell.
C17_NoPartialSuccess ==
    Threw =>
        /\ report = NoReport
        /\ thrown.type = "RangeError"
        /\ \E name \in BothNames : \E pos \in ChangedPositions(name) :
              /\ thrown.about = pos[2] + 1
              /\ thrown.about >= COLUMN_LIMIT

\* the call threw on the last column after it had collected a line for the
\* first column
C17_Witness ==
    /\ Threw
    /\ report = NoReport
    /\ \E name \in BothNames :
          /\ <<0, 0>> \in ChangedPositions(name)
          /\ <<0, LastColumn - 1>> \in ChangedPositions(name)

(***************************************************************************)
(* The value comparison on its own (SpecValues).                           *)
(***************************************************************************)
ValuesReturned == pc = "valuesReturned"
BothOfKind(kind) == value1.kind = kind /\ value2.kind = kind
DistinctObjects == IsObject(value1) /\ IsObject(value2) /\ value1.ref # value2.ref

\* C11: two date values are reported as changed exactly when their instants
\* differ, whichever objects carry the instants.
C11_InstantEquality ==
    (ValuesReturned /\ BothOfKind("date"))
        => (valuesDiffer <=> value1.val # value2.val)

\* two distinct date objects of one instant compared, and found equal
C11_Witness ==
    /\ ValuesReturned
    /\ BothOfKind("date")
    /\ DistinctObjects
    /\ value1.val = value2.val
    /\ ~valuesDiffer

\* C12: two image references are reported as changed exactly when their URLs
\* differ, also when the references are distinct objects.
C12_ImageEquality ==
    (ValuesReturned /\ BothOfKind("image"))
        => (valuesDiffer <=> value1.val # value2.val)

\* two distinct image objects of one URL compared, and found equal
C12_Witness ==
    /\ ValuesReturned
    /\ BothOfKind("image")
    /\ DistinctObjects
    /\ value1.val = value2.val
    /\ ~valuesDiffer

\* the two values are one primitive value: same kind, same value
SamePrimitive == ~IsObject(value1) /\ value1.kind = value2.kind /\ value1.val = value2.val

\* C13: when the values are not both dates and not both images they are
\* reported as unchanged exactly when they have the same kind and the same
\* value; a text and a number of the same print, a date and a non-date, an
\* image and a non-image are reported as changed.
C13_StrictEquality ==
    (ValuesReturned /\ ~BothOfKind("date") /\ ~BothOfKind("image"))
        => /\ valuesDiffer <=> ~SamePrimitive
           /\ value1.kind # value2.kind => valuesDiffer

\* a text and a number of the same print compared, and found changed
C13_Witness ==
    /\ ValuesReturned
    /\ value1.kind = "string"
    /\ value2.kind = "number"
    /\ value1.val = value2.val
    /\ valuesDiffer

(***************************************************************************)
(* Two calls on the same spreadsheets (SpecTwice).                         *)
(***************************************************************************)
ReturnedAgain == pc = "returnedAgain"

\* C14: backupAlreadyExists of a report is the existence answer of its call,
\* and a second call on the same two snapshots with any existence answer
\* returns the same backupNeeded and the same changes.
C14_FlagIndependence ==
    /\ Returned => report.backupAlreadyExists = backupFileExists
    /\ ReturnedAgain =>
          /\ report.backupAlreadyExists = backupFileExists
          /\ secondReport.backupAlreadyExists = secondExists
          /\ secondReport.backupNeeded = report.backupNeeded
          /\ secondReport.changes = report.changes

\* the existence answer went from no to yes between two calls on snapshots
\* without changes: the reports hold the combinations (no, no) and (no, yes)
C14_NotNeeded ==
    /\ ReturnedAgain
    /\ ~backupFileExists
    /\ secondExists
    /\ ~report.backupNeeded
    /\ ~report.backupAlreadyExists
    /\ ~secondReport.backupNeeded
    /\ secondReport.backupAlreadyExists

\* the existence answer went from yes to no between two calls on snapshots
\* with changes: the reports hold the combinations (yes, yes) and (yes, no)
C14_Witness ==
    /\ ReturnedAgain
    /\ report.backupNeeded
    /\ report.backupAlreadyExists
    /\ secondReport.backupNeeded
    /\ ~secondReport.backupAlreadyExists
    /\ report.changes # <<>>

(***************************************************************************)
(* The rendering of a report (SpecFormat).                                 *)
(***************************************************************************)
FormatReturned == pc = "formatReturned"
Word(b) == IF b THEN "Yes" ELSE "No"
KindsOf(text) == [p \in 1..Len(text) |-> text[p].kind]

\* C18: the text starts with the title, the three resource lines with the
\* names and IDs of the report, an empty line, the three Yes/No lines
\* (already exists, changes, forced), an empty line and the heading; what
\* follows is the one line None. exactly when changes is empty, and otherwise
\* one bullet per change line, in the order of the report.
C18_Rendering ==
    FormatReturned =>
        /\ Len(formatted) >= 11
        /\ SubSeq(KindsOf(formatted), 1, 10)
              = <<"title", "folder", "source", "comparison", "empty",
                  "exists", "needed", "forced", "empty", "heading">>
        /\ formatted[2].name = report.folder.name
        /\ formatted[2].id = report.folder.id
        /\ formatted[3].name = report.sourceSpreadsheet.name
        /\ formatted[3].id = report.sourceSpreadsheet.id
        /\ formatted[4].name = report.comparisonSpreadsheet.name
        /\ formatted[4].id = report.comparisonSpreadsheet.id
        /\ formatted[6].word = Word(report.backupAlreadyExists)
        /\ formatted[7].word = Word(report.backupNeeded)
        /\ formatted[8].word = Word(forceBackup)
        /\ (report.changes = <<>>) <=> (formatted[11].kind = "none")
        /\ report.changes = <<>> => Len(formatted) = 11
        /\ report.changes # <<>> =>
              /\ Len(formatted) = 10 + Len(report.changes)
              /\ \A p \in 1..Len(report.changes) :
                    /\ formatted[10 + p].kind = "bullet"
                    /\ formatted[10 + p].change = report.changes[p]

\* a forced call on a report of two different changes whose backup does not
\* exist yet
C18_Witness ==
    /\ FormatReturned
    /\ Len(report.changes) = 2
    /\ report.changes[1] # report.changes[2]
    /\ ~report.backupAlreadyExists
    /\ forceBackup
    /\ Len(formatted) = 12

\* a call on a report without changes
C18_NoneListed ==
    /\ FormatReturned
    /\ report.changes = <<>>
    /\ formatted[Len(formatted)].kind = "none"

(***************************************************************************)
(* Runs of backupDailyContents (SpecRun).                                  *)
(***************************************************************************)
RunOver == pc \in {"done", "stopped", "failed", "escaped"}
SuccessEmails == {k \in 1..Len(emails) : emails[k].subject = "success"}

\* C19: the body of the success email of a run is the text
\* formatBackupReport_ renders for the report and the flag of that run.
C19_EmailIsRendering ==
    \A k \in SuccessEmails : emails[k].body = formatBackupReport_(report, forceBackup)

\* C20: a run with forceBackup = true in which the source spreadsheet and the
\* backups folder are both retrieved ends with a backup copied into the folder.
C20_ForcedBackupHappens ==
    (RunOver /\ forceBackup /\ sourceFound /\ folderFound) => copyDone

(***************************************************************************)
(* Two calls on the same spreadsheets, sheets listed in any order          *)
(* (SpecReordered).                                                        *)
(***************************************************************************)
ReturnedReordered == pc = "returnedReordered"

\* C21: a second call on the same two snapshots with the same existence
\* answer returns the same backupNeeded, the same backupAlreadyExists and the
\* same sequence of change lines, in whatever order each snapshot lists its
\* sheets.
C21_Determinism ==
    ReturnedReordered =>
        /\ secondReport.backupNeeded = report.backupNeeded
        /\ secondReport.backupAlreadyExists = report.backupAlreadyExists
        /\ secondReport.changes = report.changes

\* both snapshots listed their two sheets in the other order at the second
\* call, and the reports hold at least two lines
C21_Witness ==
    /\ ReturnedReordered
    /\ Len(sourceSheets) = 2
    /\ Len(backupSheets) = 2
    /\ secondSheets[1] # sourceSheets
    /\ secondSheets[2] # backupSheets
    /\ Len(report.changes) >= 2
    /\ secondReport.changes = report.changes

Copied == pc \in {"copied", "done"} /\ copyDone
BaseName == BaseSpreadsheetName(RunDay)

\* the file the copy of this run has put into the folder, and the others
NewFileIndex == CHOOSE k \in 1..Len(folderFiles) : folderFiles[k].id = 10 + Len(folderFiles)
NewFile == folderFiles[NewFileIndex]
OtherFileNames == {folderFiles[k].name : k \in 1..Len(folderFiles) \ {NewFileIndex}}

\* base followed by " (k)"
Numbered(base, k) == base \o <<32, 40>> \o ToDecimal(k) \o <<41>>

\* the files of the folder created by runs of the script
ScriptFiles == {k \in 1..Len(folderFiles) : folderFiles[k].created > MaxInstant}

\* C23: the name of the file a run has copied is held by no other file of the
\* folder; it is the base name when no other file holds the base name, and
\* otherwise the base name followed by (k) for the least k >= 1 whose name no
\* other file holds; no two files created by runs that followed one another
\* have the same name.
C23_NextPossibleName ==
    /\ Copied =>
          /\ NewFile.name \notin OtherFileNames
          /\ BaseName \notin OtherFileNames => NewFile.name = BaseName
          /\ BaseName \in OtherFileNames =>
                \E k \in 1..Len(folderFiles) :
                    /\ NewFile.name = Numbered(BaseName, k)
                    /\ \A smaller \in 1..(k - 1) :
                          Numbered(BaseName, smaller) \in OtherFileNames
    /\ \A a, b \in ScriptFiles : a # b => folderFiles[a].name # folderFiles[b].name

\* the second run copied under the name with (2): the base name and the name
\* with (1) were taken, one of them by the copy of the first run
C23_Witness ==
    /\ Copied
    /\ runNumber = 2
    /\ Cardinality(ScriptFiles) = 2
    /\ NewFile.name = Numbered(BaseName, 2)

(***************************************************************************)
(* The comparison spreadsheet of a run (SpecRun).                          *)
(***************************************************************************)
Compiled == pc \in {"proceed", "stopped", "copied", "done"}
ResourcesRetrieved == sourceFound /\ folderFound

\* the files of the folder before the copy of the run, if any, was added
FilesAtCompile == SelectSeq(folderFiles, LAMBDA file : file.created <= MaxInstant)

\* the first file, in iteration order, that no file is newer than
FirstNewest(files) ==
    files[CHOOSE k \in 1..Len(files) :
              /\ \A other \in 1..Len(files) : files[other].created <= files[k].created
              /\ \A before \in 1..(k - 1) : files[before].created < files[k].created]

\* C24: the comparison spreadsheet of a report is the file of the folder
\* created last, the first in iteration order of those created at the same
\* instant, and the report is compiled against its sheets; with no file in the
\* folder the call raises and names no comparison spreadsheet.
C24_NewestFile ==
    /\ Compiled =>
          /\ FilesAtCompile # <<>>
          /\ report.comparisonSpreadsheet.id = FirstNewest(FilesAtCompile).id
          /\ report.comparisonSpreadsheet.name = FirstNewest(FilesAtCompile).name
          /\ backupSheets = FirstNewest(FilesAtCompile).sheets
    /\ (pc # "run" /\ ResourcesRetrieved /\ FilesAtCompile = <<>>) =>
          /\ pc \in {"failed", "escaped"}
          /\ thrown = [type |-> "Error", message |-> "Folder is empty.",
                       about |-> BACKUP_FOLDER_ID]
          /\ report = NoReport

\* two files created at the same, latest instant: the report is compiled
\* against the one listed first, whose sheets differ from the other's
C24_Witness ==
    /\ Compiled
    /\ Len(FilesAtCompile) = 2
    /\ FilesAtCompile[1].created = FilesAtCompile[2].created
    /\ FilesAtCompile[1].sheets # FilesAtCompile[2].sheets
    /\ report.comparisonSpreadsheet.id = FilesAtCompile[1].id
    /\ backupSheets = FilesAtCompile[1].sheets

\* a run on a folder without files
C24_EmptyFolder ==
    /\ pc = "failed"
    /\ ResourcesRetrieved
    /\ folderFiles = <<>>
    /\ thrown.message = "Folder is empty."

\* ---------------------------------------------------------------------
\* C25, C29  copySpreadsheet_

SheetNames(sheets) == [p \in 1..Len(sheets) |-> sheets[p].name]

\* C25: when copySpreadsheet_ completes, the new spreadsheet is in the folder
\* and holds, in the order of the source, one sheet per source sheet, with the
\* name and the values of the source sheet, and none of the sheets it was
\* created with.
C25_CopyResult ==
    Copied =>
        /\ \E k \in 1..Len(folderFiles) : folderFiles[k].id = 10 + Len(folderFiles)
        /\ SheetNames(NewFile.sheets) = SheetNames(sourceSheets)
        /\ NewFile.sheets = sourceSheets

\* the source has a sheet "Copy of a" before its sheet "a": the copy of "a"
\* is added as "Copy of a 1" and ends as "a 1"
C25_NumberedCopy ==
    /\ Copied
    /\ SheetNames(sourceSheets) = <<CopyOf \o <<SpaceChar>> \o OneSheetName, OneSheetName>>
    /\ SheetNames(NewFile.sheets) =
          <<CopyOf \o <<SpaceChar>> \o OneSheetName, OneSheetName \o <<SpaceChar, 49>>>>

\* C29: while copySpreadsheet_ copies, setName never gives a copied sheet a
\* name another sheet of the target holds: no run fails on the renaming.
C29_NoRenameClash ==
    ~(/\ pc = "failed"
      /\ thrown = Error("A sheet with that name already exists.",
                        TRACKER_SPREADSHEET_ID))

\* the source has a sheet named like the sheet the target is created with
C29_DefaultNameClash ==
    /\ pc = "failed"
    /\ report # NoReport
    /\ HoldsSheetName(sourceSheets, DefaultSheetName)
    /\ thrown.message = "A sheet with that name already exists."
    /\ ~copyDone

\* ---------------------------------------------------------------------
\* C26  the gate before the copy

\* copySpreadsheet_ has been called in this run: it completed or it threw
CopyInvoked ==
    \/ copyDone
    \/ pc \in {"failed", "escaped"}
          /\ thrown.message = "A sheet with that name already exists."

\* the report of this run was compiled without error and the run is past
\* the test of forceBackup
PastGate == pc \in {"stopped", "proceed"} \/ CopyInvoked

\* C26: once the report is compiled without error, the run goes on to
\* copySpreadsheet_ exactly when forceBackup is true or backupAlreadyExists is
\* false, whatever backupNeeded is; a run that is not forced and finds the
\* backup of the day stops with no copy and no email.
C26_CopyGate ==
    PastGate =>
        /\ (pc = "proceed" \/ CopyInvoked) <=> (forceBackup \/ ~report.backupAlreadyExists)
        /\ pc = "stopped" <=> (~forceBackup /\ report.backupAlreadyExists)
        /\ pc = "stopped" => (emails = <<>> /\ ~copyDone)

\* a run that is not forced finds changes and the backup of the day: it stops
C26_Witness ==
    /\ pc = "stopped"
    /\ report.backupNeeded
    /\ report.backupAlreadyExists
    /\ ~forceBackup
    /\ emails = <<>>

\* a forced run copies although the report found no change
C26_ForcedWithoutNeed ==
    /\ Copied
    /\ forceBackup
    /\ ~report.backupNeeded
    /\ report.backupAlreadyExists

\* a run that is not forced copies although the report found no change: the
\* backup of the day is missing
C26_CopyWithoutNeed ==
    /\ Copied
    /\ ~forceBackup
    /\ ~report.backupNeeded
    /\ ~report.backupAlreadyExists

\* ---------------------------------------------------------------------
\* C27  the emails of one run

ErrorEmails == {k \in 1..Len(emails) : emails[k].subject = "error"}

\* the run has caught an error raised by the retrieval of the resources, the
\* compilation of the report or the copy
RaisedBeforeNotify == pc \in {"failed", "escaped"} /\ thrown.message # "Email not sent"

\* C27: a success email is in the outbox only when copySpreadsheet_ has
\* completed; a run in which the retrieval, the compilation or the copy raised
\* has sent no success email and, unless the sending of the error email
\* failed and let its exception escape, exactly one error email; a run that
\* ends without a throw has sent no error email.
C27_Notifications ==
    /\ SuccessEmails # {} => copyDone
    /\ RaisedBeforeNotify => SuccessEmails = {}
    /\ (RaisedBeforeNotify /\ pc = "failed") =>
          (Cardinality(ErrorEmails) = 1 /\ Len(emails) = 1)
    /\ pc = "escaped" => emails = <<>>
    /\ pc = "failed" => Cardinality(ErrorEmails) = 1
    /\ pc \in {"run", "proceed", "copied", "stopped", "done"} => ErrorEmails = {}
    /\ Cardinality(SuccessEmails) <= 1

\* the copy raised: one error email, no success email, no backup
C27_Witness ==
    /\ pc = "failed"
    /\ thrown.message = "A sheet with that name already exists."
    /\ report # NoReport
    /\ Len(emails) = 1
    /\ emails[1].subject = "error"
    /\ ~copyDone

\* the error email could not be sent: the exception escapes the run
C27_Escaped ==
    /\ pc = "escaped"
    /\ thrown.message = "Folder is empty."
    /\ emails = <<>>

\* the run copied and sent the success email
C27_Success ==
    /\ pc = "done"
    /\ copyDone
    /\ Len(emails) = 1
    /\ emails[1].subject = "success"

\* ---------------------------------------------------------------------
\* C28  a run after a run that copied

\* the run before this one has left its copy in the folder
CopiedByRunBefore ==
    /\ runNumber > 1
    /\ \E k \in 1..Len(folderFiles) : folderFiles[k].created = Now(runNumber - 1)

CopyOfRunBefore ==
    folderFiles[CHOOSE k \in 1..Len(folderFiles) :
                    folderFiles[k].created = Now(runNumber - 1)]

\* C28: the run that follows a run that copied, with the source and the
\* folder left alone in between, compiles its report against that copy and
\* finds no change: changes is empty and backupNeeded is false.
C28_BackupThenCompare ==
    (CopiedByRunBefore /\ Compiled) =>
        /\ report.comparisonSpreadsheet.id = CopyOfRunBefore.id
        /\ report.changes = <<>>
        /\ ~report.backupNeeded

\* the second run compares against the copy of the first and finds changes:
\* the sheet "a" of the source is "a 1" in the copy
C28_ChangesAfterCopy ==
    /\ CopiedByRunBefore
    /\ Compiled
    /\ report.comparisonSpreadsheet.id = CopyOfRunBefore.id
    /\ SheetNames(CopyOfRunBefore.sheets) # SheetNames(sourceSheets)
    /\ report.changes # <<>>
    /\ report.backupNeeded

\* with a source whose sheets the copy names as the source does, the second
\* run finds no change
C28_FaithfulCopyCompares ==
    (CopiedByRunBefore /\ Compiled
        /\ SheetNames(CopyOfRunBefore.sheets) = SheetNames(sourceSheets)) =>
        /\ report.comparisonSpreadsheet.id = CopyOfRunBefore.id
        /\ report.changes = <<>>
        /\ ~report.backupNeeded

\* ---------------------------------------------------------------------
\* C30  runs that overlap

\* the files of the folder the runs have moved into it
MovedByRuns == {k \in 1..Len(folderFiles) : folderFiles[k].created > MaxInstant}

\* C30: two runs that overlap leave no two backup files of the same name in
\* the folder.
C30_NoSameNameFromOverlap ==
    \A a, b \in MovedByRuns : a # b => folderFiles[a].name # folderFiles[b].name

\* both runs read the folder before either moved its file into it, chose the
\* same name, and both files are in the folder
C30_SameNameTwice ==
    /\ \A r \in RunNames : overlapRuns[r].pc \in {"copied", "done"}
    /\ overlapRuns["trigger"].file.name = overlapRuns["manual"].file.name
    /\ overlapRuns["trigger"].file.id # overlapRuns["manual"].file.id
    /\ \A r \in RunNames :
          \E k \in 1..Len(folderFiles) : folderFiles[k] = overlapRuns[r].file

====
